---- MODULE Spec2Model ----
(***************************************************************************)
(* Model of the eve transaction admission pipeline (app/ante/ante.go):     *)
(* the decorator chain built by NewAnteHandler, and the fee-market denom   *)
(* resolver DenomResolverImpl.                                             *)
(*                                                                         *)
(* Spec          the ante chain: one Admit call at a time, one step per    *)
(*               decorator of the anteDecorators list.                     *)
(* SpecResolver  the resolver: administrative changes of the host-zone     *)
(*               registry and calls of ConvertToDenom / ExtraDenoms.       *)
(***************************************************************************)
EXTENDS Integers, Sequences, FiniteSets, TLC

(***************************************************************************)
(* Bounds of the model.                                                    *)
(***************************************************************************)
MaxSigners == 2      \* signers of one transaction
MaxFee == 1          \* largest fee a transaction offers
MaxBalance == 2      \* largest initial balance of the fee payer
PrecisionDigits == 1 \* fractional digits a decimal carries (LegacyDec: 18)
MaxHalfUnits == 12   \* largest amount converted, in halves of a unit
MaxCoins == 2        \* most coins in a bundle handed to a resolver helper
MaxOffer == 5        \* largest fee offered where fees are compared to prices
MaxBlocks == 3       \* FinalizeBlock calls on one application instance
MaxRetriesBound == 3 \* the largest config.MaxRetries considered
MaxCopies == 2       \* maps GetMaccPerms hands out

None == "none"

VARIABLES
    \* ---- ante chain ----
    status,           \* "idle" | "running" | "ok" | "failed"
    tx,               \* the transaction being admitted (NoTx when idle)
    mode,             \* "check" | "deliver" | "simulate": how BaseApp calls
    pc,               \* index in anteDecorators of the stage to run next
    failedAt,         \* index of the stage that rejected (0: none)
    errKind,          \* the error the chain returned (None: none)
    executed,         \* indices of the stages whose body has run, in order
    gasMeter,         \* ctx gas meter: [infinite, limit, consumed]
    minGasPrices,     \* ctx.MinGasPrices(): one DecCoin [denom, amount]
    balance,          \* fee payer's balance as seen through ctx
    ibcBalance,       \* fee payer's balance of each foreign denom
    accounts,         \* signer -> [sequence, pubKey]
    txCounter,        \* wasm TX counter stored for the current block height
    feemarketParams,  \* x/feemarket params: [enabled]
    baseGasPrice,     \* x/feemarket state: the base gas price, a decimal
    debits,           \* stages that debited the payer in this run, in order
    balance0,         \* payer balance when the call started
    ibcBalance0,      \* payer's foreign balances when the call started
    accounts0,        \* accounts when the call started
    rerun,            \* the caller's record for running the call again: the
                      \* TX counter and minimum gas prices the call started
                      \* from, and the first run's mode and outcome once done
    \* ---- denom resolver ----
    hostZoneConfig,   \* feeabs host-zone registry: IBC denom -> status
    twapRate,         \* feeabs TWAP store: IBC denom -> rate (NoRate: none)
    conv,             \* the last ConvertToDenom call and its result
    back,             \* result of converting conv's result back
    extraDenoms,      \* result of the last ExtraDenoms call
    helper,           \* the last direct call of a resolver helper, its result
    \* ---- construction ----
    options,          \* HandlerOptions: field -> TRUE when set (not nil)
    built,            \* the last NewAnteHandler call and what it returned
    \* ---- the application instance ----
    once,             \* EveApp.once: TRUE when its function has been run
    consensusParams,  \* where the consensus parameters are stored
    finalize,         \* the FinalizeBlock call in progress and the events so far
    \* ---- airdrop tooling ----
    retry,            \* one call of the function RetryableBalanceFunc returned
    \* ---- module-account permissions ----
    mapHeap,          \* the maps: id 0 is the package-level maccPerms
    sliceHeap,        \* the backing arrays of the permission slices
    handed,           \* the ids of the maps GetMaccPerms returned, in order
    lastDup,          \* the contents of the last GetMaccPerms result, as returned
    blocked,          \* the last BlockedAddresses call and its result
    elementWritten    \* a caller has written an element of a permission slice

anteVars == <<status, tx, mode, pc, failedAt, errKind, executed, gasMeter,
              minGasPrices, balance, ibcBalance, accounts, txCounter,
              feemarketParams, baseGasPrice, debits, balance0, ibcBalance0,
              accounts0, rerun>>

resolverVars == <<hostZoneConfig, twapRate, conv, back, extraDenoms, helper>>

blockVars == <<once, consensusParams, finalize>>

retryVars == <<retry>>

maccVars == <<mapHeap, sliceHeap, handed, lastDup, blocked, elementWritten>>

hostVars == <<blockVars, retryVars, maccVars>>

appVars == <<options, built, hostVars>>

vars == <<anteVars, resolverVars, appVars>>

(***************************************************************************)
(* DenomResolverImpl and the feeabs keeper it reads.                       *)
(***************************************************************************)
BondDenom == "ueve"
IbcDenoms == {"ibc/ABC", "ibc/XYZ"}
Denoms == {BondDenom} \cup IbcDenoms

\* a decimal d is the integer d * precisionReuse (LegacyDec keeps 18 digits)
precisionReuse == 10 ^ PrecisionDigits
OneDec == precisionReuse

NoRate == -1
Rates == {0, OneDec \div 2, OneDec, 2 * OneDec, 4 * OneDec}
Statuses == {"UPDATED", "OUTDATED", "FROZEN"}
Absent == "absent"

Amounts == {(k * OneDec) \div 2 : k \in 0..MaxHalfUnits}
DecCoins == [denom : Denoms, amount : Amounts]

\* a division that rounds half away from zero
chopPrecisionAndRoundHalfUp(x) ==
    LET quo == x \div precisionReuse
        rem == x % precisionReuse
    IN IF 2 * rem < precisionReuse THEN quo ELSE quo + 1

\* math.chopPrecisionAndRound: drops the fractional digits of a non-negative
\* value with banker's rounding (a half goes to the even neighbour)
chopPrecisionAndRound(x) ==
    LET quo == x \div precisionReuse
        rem == x % precisionReuse
    IN IF rem = 0 THEN quo
       ELSE IF 2 * rem < precisionReuse THEN quo
       ELSE IF 2 * rem > precisionReuse THEN quo + 1
       ELSE IF quo % 2 = 0 THEN quo ELSE quo + 1

\* LegacyDec.Quo: multiplies by the precision twice, divides truncating,
\* then chops one precision with rounding (the divisor is not zero)
Quo(d1, d2) == chopPrecisionAndRound((d1 * precisionReuse * precisionReuse) \div d2)

\* LegacyDec.MulInt: exact
MulInt(d, i) == d * i

RoundInt(d) == chopPrecisionAndRound(d)
TruncateInt(d) == d \div precisionReuse
ToLegacyDec(i) == i * precisionReuse

\* sdk.NewCoins of one coin: a zero coin is dropped
NewCoins(coin) == IF coin.amount = 0 THEN <<>> ELSE <<coin>>

Ok(coins) == [kind |-> "ok", err |-> None, coins |-> coins]
Err(e) == [kind |-> "err", err |-> e, coins |-> <<>>]
Panic(e) == [kind |-> "panic", err |-> e, coins |-> <<>>]

HasHostZoneConfig(reg, d) == d \in DOMAIN reg /\ reg[d] # Absent

\* a check that accepts any single coin
verifyIBCCoinsAnyDenom(reg, ibcCoins) ==
    IF Len(ibcCoins) # 1 THEN "ErrInvalidIBCFees" ELSE None

\* DenomResolverImpl.verifyIBCCoins: the error it returns (None: nil)
verifyIBCCoins(reg, ibcCoins) ==
    IF Len(ibcCoins) # 1 THEN "ErrInvalidIBCFees"
    ELSE IF HasHostZoneConfig(reg, ibcCoins[1].denom) THEN None
    ELSE "ErrUnsupportedDenom"

\* a conversion that multiplies by the rate where the code divides
getIBCCoinFromNativeMul(reg, twap, nativeCoins, ibcDenom) ==
    IF Len(nativeCoins) # 1 THEN Err("expected exactly one native coin")
    ELSE IF twap[ibcDenom] = NoRate THEN Err("twap rate not found")
    ELSE LET ibcAmount == RoundInt(MulInt(twap[ibcDenom], nativeCoins[1].amount))
             ibcCoin == [denom |-> ibcDenom, amount |-> ibcAmount]
             err == verifyIBCCoins(reg, NewCoins(ibcCoin))
         IN IF err # None THEN Err(err) ELSE Ok(NewCoins(ibcCoin))

\* DenomResolverImpl.getIBCCoinFromNative; ibcDenom is chainConfig.IbcDenom
getIBCCoinFromNative(reg, twap, nativeCoins, ibcDenom) ==
    IF Len(nativeCoins) # 1 THEN Err("expected exactly one native coin")
    ELSE IF twap[ibcDenom] = NoRate THEN Err("twap rate not found")
    ELSE IF twap[ibcDenom] = 0 THEN Panic("division by zero")
    ELSE LET ibcAmount == RoundInt(Quo(ToLegacyDec(nativeCoins[1].amount), twap[ibcDenom]))
             ibcCoin == [denom |-> ibcDenom, amount |-> ibcAmount]
             err == verifyIBCCoins(reg, NewCoins(ibcCoin))
         IN IF err # None THEN Err(err) ELSE Ok(NewCoins(ibcCoin))

\* feeabs Keeper.CalculateNativeFromIBCCoins, as ConvertToDenom calls it
CalculateNativeFromIBCCoins(reg, twap, ibcCoins, ibcDenom) ==
    LET err == verifyIBCCoins(reg, ibcCoins) IN
    IF err # None THEN Err(err)
    ELSE IF twap[ibcDenom] = NoRate THEN Err("twap rate not found")
    ELSE LET nativeFeeAmount == RoundInt(MulInt(twap[ibcDenom], ibcCoins[1].amount))
         IN Ok(NewCoins([denom |-> BondDenom, amount |-> nativeFeeAmount]))

\* DenomResolverImpl.ConvertToDenom(ctx, coin, denom); bondErr: the staking
\* keeper could not read the bond denom.  The result's coins hold the
\* returned DecCoin, its amount in whole units.
ConvertToDenom(reg, twap, coin, denom, bondErr) ==
    IF bondErr THEN Err("bond denom")
    ELSE IF denom = BondDenom
    THEN IF ~HasHostZoneConfig(reg, coin.denom) THEN Err("error resolving denom")
         ELSE LET r == getIBCCoinFromNative(reg, twap,
                          NewCoins([denom |-> coin.denom,
                                    amount |-> TruncateInt(coin.amount)]),
                          coin.denom)
              IN IF r.kind # "ok" THEN r
                 ELSE Ok(<<[denom |-> denom, amount |-> r.coins[1].amount]>>)
    ELSE IF ~HasHostZoneConfig(reg, denom) THEN Err("error resolving denom")
         ELSE LET r == CalculateNativeFromIBCCoins(reg, twap,
                          NewCoins([denom |-> denom,
                                    amount |-> TruncateInt(coin.amount)]),
                          denom)
              IN IF r.kind # "ok" THEN r
                 ELSE IF Len(r.coins) = 0 THEN Panic("index out of range")
                 ELSE Ok(<<[denom |-> denom, amount |-> r.coins[1].amount]>>)

\* The keeper lookups each function makes, in the order it makes them.
\* verifyIBCCoins: the length check comes before HasHostZoneConfig
verifyIBCCoinsLookups(ibcCoins) ==
    IF Len(ibcCoins) # 1 THEN <<>> ELSE <<"HasHostZoneConfig">>

\* a helper that reads the rate before it looks at the bundle
getIBCCoinFromNativeLookupsRateFirst(reg, twap, nativeCoins, ibcDenom) ==
    <<"GetTwapRate">>

\* getIBCCoinFromNative: the length check, then GetTwapRate, then the
\* lookup verifyIBCCoins makes for the coin computed
getIBCCoinFromNativeLookups(reg, twap, nativeCoins, ibcDenom) ==
    IF Len(nativeCoins) # 1 THEN <<>>
    ELSE IF twap[ibcDenom] = NoRate \/ twap[ibcDenom] = 0 THEN <<"GetTwapRate">>
    ELSE <<"GetTwapRate">> \o
         verifyIBCCoinsLookups(NewCoins(
             [denom |-> ibcDenom,
              amount |-> RoundInt(Quo(ToLegacyDec(nativeCoins[1].amount),
                                      twap[ibcDenom]))]))

\* feeabs Keeper.CalculateNativeFromIBCCoins: verifyIBCCoins, GetTwapRate,
\* then the staking keeper's bond denom
CalculateNativeFromIBCCoinsLookups(reg, twap, ibcCoins, ibcDenom) ==
    verifyIBCCoinsLookups(ibcCoins) \o
    (IF verifyIBCCoins(reg, ibcCoins) # None THEN <<>>
     ELSE IF twap[ibcDenom] = NoRate THEN <<"GetTwapRate">>
     ELSE <<"GetTwapRate", "BondDenom">>)

\* ConvertToDenom: the bond denom, GetHostZoneConfig of the foreign denom,
\* then the lookups of the helper it calls with the one-coin bundle
ConvertToDenomLookups(reg, twap, coin, denom, bondErr) ==
    IF bondErr THEN <<"BondDenom">>
    ELSE IF denom = BondDenom
    THEN <<"BondDenom", "GetHostZoneConfig">> \o
         (IF ~HasHostZoneConfig(reg, coin.denom) THEN <<>>
          ELSE getIBCCoinFromNativeLookups(reg, twap,
                   NewCoins([denom |-> coin.denom,
                             amount |-> TruncateInt(coin.amount)]),
                   coin.denom))
    ELSE <<"BondDenom", "GetHostZoneConfig">> \o
         (IF ~HasHostZoneConfig(reg, denom) THEN <<>>
          ELSE CalculateNativeFromIBCCoinsLookups(reg, twap,
                   NewCoins([denom |-> denom,
                             amount |-> TruncateInt(coin.amount)]),
                   denom))

\* the denoms of a set, in the order the store iterates them
RECURSIVE SortedDenoms(_)
SortedDenoms(S) ==
    IF S = {} THEN <<>>
    ELSE LET first == CHOOSE d \in S : \A e \in S :
                          d = e \/ (d = "ibc/ABC" /\ e = "ibc/XYZ")
         IN <<first>> \o SortedDenoms(S \ {first})

\* a list that leaves out the host zones whose status is not UPDATED
ExtraDenomsEnabledOnly(reg, readErr) ==
    IF readErr THEN [kind |-> "err", denoms |-> <<>>]
    ELSE [kind |-> "ok",
          denoms |-> SortedDenoms({d \in IbcDenoms : reg[d] = "UPDATED"})]

\* a list that is empty, with no error, when the registry cannot be read
ExtraDenomsSwallowingError(reg, readErr) ==
    [kind |-> "ok",
     denoms |-> IF readErr THEN <<>>
                ELSE SortedDenoms({d \in IbcDenoms : reg[d] # Absent})]

\* DenomResolverImpl.ExtraDenoms: the IbcDenom of every host-zone config
ExtraDenoms(reg, readErr) ==
    IF readErr THEN [kind |-> "err", denoms |-> <<>>]
    ELSE [kind |-> "ok",
          denoms |-> SortedDenoms({d \in IbcDenoms : reg[d] # Absent})]

(***************************************************************************)
(* Program constants.                                                      *)
(***************************************************************************)
BlockMaxGas == 4     \* consensus params Block.MaxGas seen by SetUpContext
TxSizeGas == 1       \* TxSizeCostPerByte * len(ctx.TxBytes()) of a transaction
SigVerifyGas == 1    \* gas DefaultSigVerificationGasConsumer charges per key

Signers == 1..MaxSigners
FeePayer == 1        \* the first signer pays the fee

\* gas limits a transaction declares: none, too little for its signatures,
\* enough for every stage, more than a block allows
TxGasChoices == {0, TxSizeGas + SigVerifyGas, TxSizeGas + MaxSigners * SigVerifyGas,
                 BlockMaxGas + 1}
SigSeqs == UNION {[1..n -> BOOLEAN] : n \in 1..MaxSigners}

\* gas:      the gas limit it declares (GasTx.GetGas)
\* fee:      the amount of the fee it offers (FeeTx.GetFee), no coin when 0
\* feeDenom: the denom of the fee it offers
\* sigs:     one entry per signer, TRUE when the signature verifies
\* sequence: the account sequence its signatures were made for
\* defect:   what the stateless checks (message types, extension options,
\*           basic validation, timeout height, memo, key and signature
\*           counts, relayed packets) find in the transaction: the first
\*           decorator that rejects it (None: none does), or Unspecified,
\*           and then the finding is drawn when the decorator runs.
Unspecified == "unspecified"
Txs == [gas: TxGasChoices, fee: 0..MaxFee, feeDenom: {BondDenom}, sigs: SigSeqs,
        sequence: {0, 1}, defect: {Unspecified}]

Modes == {"check", "deliver", "simulate"}
Simulate == mode = "simulate"
IsCheckTx == mode = "check"

TxSigners(t) == 1..Len(t.sigs)

(***************************************************************************)
(* NewAnteHandler: the decorator list, chained in list order.              *)
(***************************************************************************)
\* the chain with the sequence increment placed before signature verification
anteDecoratorsIncrementFirst ==
    << "SetUpContext", "LimitSimulationGas", "CountTX", "GasRegister",
       "CircuitBreaker", "ExtensionOptions", "FeeMarketCheck", "ValidateBasic",
       "TxTimeoutHeight", "ValidateMemo", "ConsumeGasForTxSize", "DeductFee",
       "SetPubKey", "ValidateSigCount", "SigGasConsume", "IncrementSequence",
       "SigVerification", "RedundantRelay" >>

\* the chain with the deduct-fee decorator placed after the signer stages
anteDecoratorsDeductLate ==
    << "SetUpContext", "LimitSimulationGas", "CountTX", "GasRegister",
       "CircuitBreaker", "ExtensionOptions", "FeeMarketCheck", "ValidateBasic",
       "TxTimeoutHeight", "ValidateMemo", "ConsumeGasForTxSize",
       "SetPubKey", "ValidateSigCount", "SigGasConsume", "SigVerification",
       "IncrementSequence", "DeductFee", "RedundantRelay" >>

\* the chain with signature gas charged after the signatures are verified
anteDecoratorsVerifyBeforeGas ==
    << "SetUpContext", "LimitSimulationGas", "CountTX", "GasRegister",
       "CircuitBreaker", "ExtensionOptions", "FeeMarketCheck", "ValidateBasic",
       "TxTimeoutHeight", "ValidateMemo", "ConsumeGasForTxSize", "DeductFee",
       "SetPubKey", "ValidateSigCount", "SigVerification", "SigGasConsume",
       "IncrementSequence", "RedundantRelay" >>

\* the chain with the circuit breaker placed after the fee-market check
anteDecoratorsBreakerLate ==
    << "SetUpContext", "LimitSimulationGas", "CountTX", "GasRegister",
       "ExtensionOptions", "FeeMarketCheck", "CircuitBreaker", "ValidateBasic",
       "TxTimeoutHeight", "ValidateMemo", "ConsumeGasForTxSize", "DeductFee",
       "SetPubKey", "ValidateSigCount", "SigGasConsume", "SigVerification",
       "IncrementSequence", "RedundantRelay" >>

anteDecorators ==
    << "SetUpContext",
       "LimitSimulationGas",
       "CountTX",
       "GasRegister",
       "CircuitBreaker",
       "ExtensionOptions",
       "FeeMarketCheck",
       "ValidateBasic",
       "TxTimeoutHeight",
       "ValidateMemo",
       "ConsumeGasForTxSize",
       "DeductFee",
       "SetPubKey",
       "ValidateSigCount",
       "SigGasConsume",
       "SigVerification",
       "IncrementSequence",
       "RedundantRelay" >>

NumStages == Len(anteDecorators)

\* position of a decorator in the chain (0 when it is not in the chain)
StageIndex(name) ==
    IF \E i \in 1..NumStages : anteDecorators[i] = name
    THEN CHOOSE i \in 1..NumStages : anteDecorators[i] = name
    ELSE 0

\* a chain whose "next" passes over one decorator
ChainNextSkipping(i) == i + 2

\* sdk.ChainAnteDecorators: the "next" handed to decorator i is decorator i+1
ChainNext(i) == i + 1

AtStage(name) ==
    /\ status = "running"
    /\ pc \in 1..NumStages
    /\ anteDecorators[pc] = name

\* the decorator calls next(ctx, tx, simulate)
CallNext ==
    /\ executed' = Append(executed, pc)
    /\ pc' = ChainNext(pc)
    /\ UNCHANGED <<status, failedAt, errKind>>

\* the decorator returns (ctx, err) without calling next
Reject(e) ==
    /\ executed' = Append(executed, pc)
    /\ status' = "failed"
    /\ failedAt' = pc
    /\ errKind' = e
    /\ UNCHANGED pc

\* a check whose finding is not a function of the transaction
RejectsAnything == BOOLEAN

\* what the stateless check of the decorator at pc finds: TRUE when it
\* rejects the transaction
Rejects ==
    IF tx.defect = Unspecified THEN BOOLEAN ELSE {tx.defect = anteDecorators[pc]}

\* the signer whose public key SetPubKey finds not to match (0: none)
BadKeys ==
    IF tx.defect = Unspecified THEN 0..Len(tx.sigs)
    ELSE IF tx.defect = anteDecorators[pc] THEN {1} ELSE {0}

\* GasMeter.ConsumeGas: panics with ErrorOutOfGas past the limit; the
\* consumed amount is recorded before the panic.
Consume(m, amount) == [m EXCEPT !.consumed = @ + amount]
OutOfGas(m) == ~m.infinite /\ m.consumed > m.limit
NewGasMeter(limit) == [infinite |-> FALSE, limit |-> limit, consumed |-> 0]
InfiniteGasMeter == [infinite |-> TRUE, limit |-> 0, consumed |-> 0]

NoTx == [gas |-> 0, fee |-> 0, feeDenom |-> BondDenom, sigs |-> <<>>, sequence |-> 0,
         defect |-> Unspecified]

\* no minimum gas price in the node's configuration
NoMinGasPrices == [denom |-> BondDenom, amount |-> 0]

\* what the caller sees of a finished call
Outcome ==
    [status |-> status, failedAt |-> failedAt, errKind |-> errKind,
     balance |-> balance, ibcBalance |-> ibcBalance, accounts |-> accounts,
     txCounter |-> txCounter, gasConsumed |-> gasMeter.consumed]

NoOutcome ==
    [status |-> "idle", failedAt |-> 0, errKind |-> None,
     balance |-> 0, ibcBalance |-> [d \in IbcDenoms |-> 0],
     accounts |-> [i \in Signers |-> [sequence |-> 0, pubKey |-> FALSE]],
     txCounter |-> 0, gasConsumed |-> 0]

NoRerun == [done |-> FALSE, mode |-> "check", outcome |-> NoOutcome,
            txCounter0 |-> 0, minGasPrices0 |-> NoMinGasPrices]

\* no call has been made
AnteStart ==
    /\ status = "idle"
    /\ tx = NoTx
    /\ mode = "check"
    /\ pc = 0
    /\ failedAt = 0
    /\ errKind = None
    /\ executed = <<>>
    /\ gasMeter = InfiniteGasMeter
    /\ accounts = [i \in Signers |-> [sequence |-> 0, pubKey |-> FALSE]]
    /\ txCounter = 0
    /\ debits = <<>>
    /\ balance0 = balance
    /\ ibcBalance0 = ibcBalance
    /\ accounts0 = accounts
    /\ rerun = [NoRerun EXCEPT !.minGasPrices0 = minGasPrices]

\* a payer with a native balance, a fee market that is on or off with a base
\* gas price of 0.3, a node without a minimum gas price of its own
AnteInit ==
    /\ balance \in 0..MaxBalance
    /\ ibcBalance = [d \in IbcDenoms |-> 0]
    /\ feemarketParams \in [enabled : BOOLEAN]
    /\ baseGasPrice = (3 * OneDec) \div 10
    /\ minGasPrices = NoMinGasPrices
    /\ AnteStart

\* stores the chain reads and writes through ctx
stores == <<balance, ibcBalance, accounts, txCounter, feemarketParams, baseGasPrice>>
ghosts == <<debits, balance0, ibcBalance0, accounts0, rerun>>
call == <<tx, mode>>

(***************************************************************************)
(* The caller invokes the handler returned by NewAnteHandler.              *)
(***************************************************************************)
Admit(t, m) ==
    /\ UNCHANGED <<resolverVars, appVars>>
    /\ status = "idle"
    /\ tx' = t
    /\ mode' = m
    /\ status' = "running"
    /\ pc' = 1
    /\ failedAt' = 0
    /\ errKind' = None
    /\ executed' = <<>>
    /\ debits' = <<>>
    /\ balance0' = balance
    /\ ibcBalance0' = ibcBalance
    /\ accounts0' = accounts
    /\ rerun' = [rerun EXCEPT !.txCounter0 = txCounter,
                              !.minGasPrices0 = minGasPrices]
    /\ UNCHANGED <<gasMeter, minGasPrices, stores>>

\* The caller runs the handler once more on the transaction, from the state
\* snapshot the first run started from and with the same simulate flag
\* (BaseApp runs it in CheckTx and again when the block is delivered, each
\* time on a branch of the state it discards or commits).
AdmitAgain(m) ==
    /\ UNCHANGED <<resolverVars, appVars>>
    /\ status \in {"ok", "failed"}
    /\ ~rerun.done
    /\ (m = "simulate") <=> (mode = "simulate")
    /\ rerun' = [rerun EXCEPT !.done = TRUE, !.mode = mode, !.outcome = Outcome]
    /\ mode' = m
    /\ status' = "running"
    /\ pc' = 1
    /\ failedAt' = 0
    /\ errKind' = None
    /\ executed' = <<>>
    /\ debits' = <<>>
    /\ gasMeter' = InfiniteGasMeter
    /\ minGasPrices' = rerun.minGasPrices0
    /\ balance' = balance0
    /\ ibcBalance' = ibcBalance0
    /\ accounts' = accounts0
    /\ txCounter' = rerun.txCounter0
    /\ UNCHANGED <<tx, feemarketParams, baseGasPrice, balance0, ibcBalance0,
                   accounts0>>

\* ante.SetUpContextDecorator: installs the gas meter (infinite when
\* simulating) and rejects a gas limit above the block's MaxGas.
SetUpContext ==
    /\ UNCHANGED <<resolverVars, appVars>>
    /\ AtStage("SetUpContext")
    /\ gasMeter' = IF Simulate THEN InfiniteGasMeter ELSE NewGasMeter(tx.gas)
    /\ IF BlockMaxGas > 0 /\ tx.gas > BlockMaxGas
       THEN Reject("ErrInvalidGasLimit")
       ELSE CallNext
    /\ UNCHANGED <<call, minGasPrices, stores, ghosts>>

\* wasmkeeper.LimitSimulationGasDecorator: when simulating, replaces the
\* meter by a limited one (WasmConfig.SimulationGasLimit is nil by default,
\* so the block's MaxGas is the limit).
LimitSimulationGas ==
    /\ UNCHANGED <<resolverVars, appVars>>
    /\ AtStage("LimitSimulationGas")
    /\ gasMeter' = IF Simulate /\ BlockMaxGas > 0
                   THEN NewGasMeter(BlockMaxGas) ELSE gasMeter
    /\ CallNext
    /\ UNCHANGED <<call, minGasPrices, stores, ghosts>>

\* wasmkeeper.CountTXDecorator: stores the next TX counter of this height,
\* except when simulating.
CountTX ==
    /\ UNCHANGED <<resolverVars, appVars>>
    /\ AtStage("CountTX")
    /\ txCounter' = IF Simulate THEN txCounter ELSE txCounter + 1
    /\ CallNext
    /\ UNCHANGED <<call, gasMeter, minGasPrices, balance, ibcBalance, accounts,
                   feemarketParams, baseGasPrice, ghosts>>

\* wasmkeeper.GasRegisterDecorator: puts the gas register in the context.
GasRegister ==
    /\ UNCHANGED <<resolverVars, appVars>>
    /\ AtStage("GasRegister")
    /\ CallNext
    /\ UNCHANGED <<call, gasMeter, minGasPrices, stores, ghosts>>

\* circuitante.CircuitBreakerDecorator: rejects a transaction with a message
\* whose type the circuit keeper has disabled.
CircuitBreaker ==
    /\ UNCHANGED <<resolverVars, appVars>>
    /\ AtStage("CircuitBreaker")
    /\ \E rejects \in Rejects :
       IF rejects
       THEN Reject("tx type not allowed")
       ELSE CallNext
    /\ UNCHANGED <<call, gasMeter, minGasPrices, stores, ghosts>>

\* ante.ExtensionOptionsDecorator: with a nil checker, rejects every
\* extension option.
ExtensionOptions ==
    /\ UNCHANGED <<resolverVars, appVars>>
    /\ AtStage("ExtensionOptions")
    /\ \E rejects \in Rejects :
       IF rejects
       THEN Reject("ErrUnknownExtensionOptions")
       ELSE CallNext
    /\ UNCHANGED <<call, gasMeter, minGasPrices, stores, ghosts>>

\* x/feemarket params.FeeDenom: the native token
FeeDenom == BondDenom

\* LegacyDec.Ceil().RoundInt() of a non-negative decimal
CeilInt(d) == (d + precisionReuse - 1) \div precisionReuse

\* the fee a gas price asks of a gas limit: ceil(price * gas)
RequiredFee(price, gas) == CeilInt(price * gas)

\* ante.checkTxFeeWithValidatorMinGasPrices, the checker a nil TxFeeChecker
\* stands for: in CheckTx, when ctx.MinGasPrices() is not zero, the fee must
\* hold a coin of a listed denom that covers ceil(price * gas)
TxFeeChecker(t, m, mgp) ==
    IF /\ m = "check"
       /\ mgp.amount # 0
       /\ ~(/\ t.fee > 0
            /\ t.feeDenom = mgp.denom
            /\ t.fee >= RequiredFee(mgp.amount, t.gas))
    THEN "ErrInsufficientFee"
    ELSE None

\* a deduct-fee body that takes the fee before it checks the gas limit
DeductFeeBodyDebitFirst(bal, t, m, mgp) ==
    IF bal < t.fee
    THEN [err |-> "ErrInsufficientFunds", debit |-> 0]
    ELSE IF m # "simulate" /\ t.gas = 0
    THEN [err |-> "ErrInvalidGasLimit", debit |-> t.fee]
    ELSE [err |-> None, debit |-> t.fee]

\* a deduct-fee body that takes what the minimum gas price asks, not the offer
DeductFeeBodyRequiredOnly(bal, t, m, mgp) ==
    LET required == IF RequiredFee(mgp.amount, t.gas) < t.fee
                    THEN RequiredFee(mgp.amount, t.gas) ELSE t.fee
    IN IF m # "simulate" /\ t.gas = 0
       THEN [err |-> "ErrInvalidGasLimit", debit |-> 0]
       ELSE IF m # "simulate" /\ TxFeeChecker(t, m, mgp) # None
       THEN [err |-> TxFeeChecker(t, m, mgp), debit |-> 0]
       ELSE IF bal < required
       THEN [err |-> "ErrInsufficientFunds", debit |-> 0]
       ELSE [err |-> None, debit |-> required]

\* ante.DeductFeeDecorator.AnteHandle up to its call of next: the error it
\* returns (None when it goes on) and the amount it takes from the payer.
\* bal is the payer's balance of the fee's denom, mgp ctx.MinGasPrices().
\* Outside simulation the fee checker runs first; the whole offered fee is
\* deducted, in simulate mode too; a zero fee makes no bank call.
DeductFeeBody(bal, t, m, mgp) ==
    IF m # "simulate" /\ t.gas = 0
    THEN [err |-> "ErrInvalidGasLimit", debit |-> 0]
    ELSE IF m # "simulate" /\ TxFeeChecker(t, m, mgp) # None
    THEN [err |-> TxFeeChecker(t, m, mgp), debit |-> 0]
    ELSE IF t.fee = 0
    THEN [err |-> None, debit |-> 0]
    ELSE IF bal < t.fee
    THEN [err |-> "ErrInsufficientFunds", debit |-> 0]
    ELSE [err |-> None, debit |-> t.fee]

\* the payer's balance of a denom
PayerBalance(d) == IF d = BondDenom THEN balance ELSE ibcBalance[d]

\* the decorator at pc runs the DeductFee body
RunDeductFee ==
    LET r == DeductFeeBody(PayerBalance(tx.feeDenom), tx, mode, minGasPrices) IN
    /\ IF tx.feeDenom = BondDenom
       THEN /\ balance' = balance - r.debit
            /\ UNCHANGED ibcBalance
       ELSE /\ ibcBalance' = [ibcBalance EXCEPT ![tx.feeDenom] = @ - r.debit]
            /\ UNCHANGED balance
    /\ debits' = IF r.debit > 0 THEN Append(debits, pc) ELSE debits
    /\ IF r.err # None THEN Reject(r.err) ELSE CallNext

\* a keeper that prices every denom at the base gas price, no conversion
GetMinGasPriceUnconverted(reg, twap, base, denom) ==
    [kind |-> "ok", err |-> None, price |-> base]

\* feemarket Keeper.GetMinGasPrice: the base gas price, converted by the
\* resolver to the fee's denom when that is not the fee market's denom
GetMinGasPrice(reg, twap, base, denom) ==
    IF denom = FeeDenom
    THEN [kind |-> "ok", err |-> None, price |-> base]
    ELSE LET r == ConvertToDenom(reg, twap,
                      [denom |-> FeeDenom, amount |-> base], denom, FALSE)
         IN IF r.kind = "ok"
            THEN [kind |-> "ok", err |-> None,
                  price |-> ToLegacyDec(r.coins[1].amount)]
            ELSE [kind |-> r.kind, err |-> r.err, price |-> 0]

\* feemarketante.FeeMarketCheckDecorator: when the fee market is enabled it
\* checks the fee against the minimum gas price of the fee's denom without
\* deducting, and puts that price in the context; otherwise it runs the
\* fallback decorator it was given, here ante.NewDeductFeeDecorator.  When
\* simulating without a fee it prices one unit of the fee market's denom.
\* A panic of the resolver leaves the chain through every decorator.
FeeMarketCheck ==
    /\ UNCHANGED <<resolverVars, appVars>>
    /\ AtStage("FeeMarketCheck")
    /\ IF feemarketParams.enabled
       THEN LET feeCoin == IF Simulate /\ tx.fee = 0
                           THEN [denom |-> FeeDenom, amount |-> 1]
                           ELSE [denom |-> tx.feeDenom, amount |-> tx.fee]
                mgp == GetMinGasPrice(hostZoneConfig, twapRate, baseGasPrice,
                                      feeCoin.denom)
            IN /\ IF ~Simulate /\ tx.gas = 0
                  THEN Reject("ErrInvalidGasLimit") /\ UNCHANGED minGasPrices
                  ELSE IF ~Simulate /\ tx.fee = 0
                  THEN Reject("ErrNoFeeCoins") /\ UNCHANGED minGasPrices
                  ELSE IF mgp.kind = "panic"
                  THEN Reject("panic") /\ UNCHANGED minGasPrices
                  ELSE IF mgp.kind = "err"
                  THEN Reject("unable to get min gas price")
                       /\ UNCHANGED minGasPrices
                  ELSE /\ minGasPrices' = [denom |-> feeCoin.denom,
                                           amount |-> mgp.price]
                       /\ IF /\ ~Simulate
                             /\ mgp.price # 0
                             /\ feeCoin.amount < RequiredFee(mgp.price, tx.gas)
                          THEN Reject("ErrInsufficientFee")
                          ELSE CallNext
               /\ UNCHANGED <<balance, ibcBalance, debits>>
       ELSE RunDeductFee /\ UNCHANGED minGasPrices
    /\ UNCHANGED <<call, gasMeter, accounts, txCounter, feemarketParams,
                   baseGasPrice, balance0, ibcBalance0, accounts0, rerun>>

\* ante.ValidateBasicDecorator
ValidateBasic ==
    /\ UNCHANGED <<resolverVars, appVars>>
    /\ AtStage("ValidateBasic")
    /\ \E rejects \in Rejects :
       IF rejects
       THEN Reject("ErrInvalidRequest")
       ELSE CallNext
    /\ UNCHANGED <<call, gasMeter, minGasPrices, stores, ghosts>>

\* ante.TxTimeoutHeightDecorator
TxTimeoutHeight ==
    /\ UNCHANGED <<resolverVars, appVars>>
    /\ AtStage("TxTimeoutHeight")
    /\ \E rejects \in Rejects :
       IF rejects
       THEN Reject("ErrTxTimeoutHeight")
       ELSE CallNext
    /\ UNCHANGED <<call, gasMeter, minGasPrices, stores, ghosts>>

\* ante.ValidateMemoDecorator
ValidateMemo ==
    /\ UNCHANGED <<resolverVars, appVars>>
    /\ AtStage("ValidateMemo")
    /\ \E rejects \in Rejects :
       IF rejects
       THEN Reject("ErrMemoTooLarge")
       ELSE CallNext
    /\ UNCHANGED <<call, gasMeter, minGasPrices, stores, ghosts>>

\* ante.ConsumeTxSizeGasDecorator: charges gas for the transaction's bytes;
\* running out of gas panics and SetUpContext turns the panic into an error.
ConsumeGasForTxSize ==
    /\ UNCHANGED <<resolverVars, appVars>>
    /\ AtStage("ConsumeGasForTxSize")
    /\ gasMeter' = Consume(gasMeter, TxSizeGas)
    /\ IF OutOfGas(gasMeter')
       THEN Reject("ErrOutOfGas")
       ELSE CallNext
    /\ UNCHANGED <<call, minGasPrices, stores, ghosts>>

\* ante.DeductFeeDecorator, the decorator of the list itself
DeductFee ==
    /\ UNCHANGED <<resolverVars, appVars>>
    /\ AtStage("DeductFee")
    /\ RunDeductFee
    /\ UNCHANGED <<call, gasMeter, minGasPrices, accounts, txCounter,
                   feemarketParams, baseGasPrice, balance0, ibcBalance0,
                   accounts0, rerun>>

\* ante.SetPubKeyDecorator: goes through the signers in order and sets the
\* public key on each account that has none; outside simulation a key that
\* does not match its signer rejects the transaction at that signer.
SetPubKey ==
    /\ UNCHANGED <<resolverVars, appVars>>
    /\ AtStage("SetPubKey")
    /\ \E bad \in BadKeys :
       IF ~Simulate /\ bad > 0
       THEN /\ accounts' = [i \in Signers |->
                      IF i < bad THEN [accounts[i] EXCEPT !.pubKey = TRUE]
                      ELSE accounts[i]]
            /\ Reject("ErrInvalidPubKey")
       ELSE /\ accounts' = [i \in Signers |->
                      IF i \in TxSigners(tx)
                      THEN [accounts[i] EXCEPT !.pubKey = TRUE]
                      ELSE accounts[i]]
            /\ CallNext
    /\ UNCHANGED <<call, gasMeter, minGasPrices, balance, ibcBalance, txCounter,
                   feemarketParams, baseGasPrice, ghosts>>

\* ante.ValidateSigCountDecorator
ValidateSigCount ==
    /\ UNCHANGED <<resolverVars, appVars>>
    /\ AtStage("ValidateSigCount")
    /\ \E rejects \in Rejects :
       IF rejects
       THEN Reject("ErrTooManySignatures")
       ELSE CallNext
    /\ UNCHANGED <<call, gasMeter, minGasPrices, stores, ghosts>>

\* gas on the meter after charging one signature after the other, stopping
\* at the first charge that passes the limit
RECURSIVE ChargeSigs(_, _)
ChargeSigs(m, n) ==
    IF n = 0 \/ OutOfGas(m) THEN m
    ELSE ChargeSigs(Consume(m, SigVerifyGas), n - 1)

\* ante.SigGasConsumeDecorator
SigGasConsume ==
    /\ UNCHANGED <<resolverVars, appVars>>
    /\ AtStage("SigGasConsume")
    /\ gasMeter' = ChargeSigs(gasMeter, Len(tx.sigs))
    /\ IF OutOfGas(gasMeter')
       THEN Reject("ErrOutOfGas")
       ELSE CallNext
    /\ UNCHANGED <<call, minGasPrices, stores, ghosts>>

\* a verification that checks the signature when simulating too
SigErrorAlwaysVerifies(i) ==
    IF ~accounts[i].pubKey THEN "ErrInvalidPubKey"
    ELSE IF tx.sequence # accounts[i].sequence THEN "ErrWrongSequence"
    ELSE IF ~tx.sigs[i] THEN "ErrUnauthorized"
    ELSE None

\* what ante.SigVerificationDecorator finds at signer i: a missing public
\* key, a sequence other than the account's, or (outside simulation) a
\* signature that does not verify
SigError(i) ==
    IF ~accounts[i].pubKey THEN "ErrInvalidPubKey"
    ELSE IF tx.sequence # accounts[i].sequence THEN "ErrWrongSequence"
    ELSE IF ~Simulate /\ ~tx.sigs[i] THEN "ErrUnauthorized"
    ELSE None

\* ante.SigVerificationDecorator: returns the error of the first signer that
\* has one
SigVerification ==
    /\ UNCHANGED <<resolverVars, appVars>>
    /\ AtStage("SigVerification")
    /\ IF \E i \in TxSigners(tx) : SigError(i) # None
       THEN LET first == CHOOSE i \in TxSigners(tx) :
                            /\ SigError(i) # None
                            /\ \A j \in TxSigners(tx) : j < i => SigError(j) = None
            IN Reject(SigError(first))
       ELSE CallNext
    /\ UNCHANGED <<call, gasMeter, minGasPrices, stores, ghosts>>

\* ante.IncrementSequenceDecorator: adds one to every signer's sequence
IncrementSequence ==
    /\ UNCHANGED <<resolverVars, appVars>>
    /\ AtStage("IncrementSequence")
    /\ accounts' = [i \in Signers |->
           IF i \in TxSigners(tx)
           THEN [accounts[i] EXCEPT !.sequence = @ + 1]
           ELSE accounts[i]]
    /\ CallNext
    /\ UNCHANGED <<call, gasMeter, minGasPrices, balance, ibcBalance, txCounter,
                   feemarketParams, baseGasPrice, ghosts>>

\* ibcante.RedundantRelayDecorator: in CheckTx, rejects a transaction whose
\* packet messages are all redundant
RedundantRelay ==
    /\ UNCHANGED <<resolverVars, appVars>>
    /\ AtStage("RedundantRelay")
    /\ \E redundant \in Rejects :
       IF IsCheckTx /\ redundant
       THEN Reject("ErrRedundantTx")
       ELSE CallNext
    /\ UNCHANGED <<call, gasMeter, minGasPrices, stores, ghosts>>

\* the terminal handler of the chain: the call returns (ctx, nil)
Terminal ==
    /\ UNCHANGED <<resolverVars, appVars>>
    /\ status = "running"
    /\ pc > NumStages
    /\ status' = "ok"
    /\ UNCHANGED <<call, pc, failedAt, errKind, executed, gasMeter, minGasPrices,
                 stores, ghosts>>


(***************************************************************************)
(* NewAnteHandler: the checks of its options and what it constructs.       *)
(***************************************************************************)
\* the fields of HandlerOptions NewAnteHandler requires, in the order it
\* checks them, each with the error it returns when the field is nil
RequiredOptions ==
    << [field |-> "AccountKeeper",
        err |-> "account keeper is required for ante builder"],
       [field |-> "BankKeeper",
        err |-> "bank keeper is required for ante builder"],
       [field |-> "SignModeHandler",
        err |-> "sign mode handler is required for ante builder"],
       [field |-> "WasmConfig",
        err |-> "wasm config is required for ante builder"],
       [field |-> "TXCounterStoreService",
        err |-> "wasm store service is required for ante builder"],
       [field |-> "CircuitKeeper",
        err |-> "circuit keeper is required for ante builder"] >>

\* the pointer and interface fields it uses without a check
UncheckedOptions ==
    {"WasmKeeper", "IBCKeeper", "FeeMarketKeeper", "FeegrantKeeper", "TxFeeChecker"}

OptionFields ==
    {RequiredOptions[k].field : k \in 1..Len(RequiredOptions)} \cup UncheckedOptions

\* a constructor that checks the bank keeper before the account keeper
NewAnteHandlerBankFirst(o) ==
    IF ~o["BankKeeper"]
    THEN [kind |-> "err", err |-> RequiredOptions[2].err, constructed |-> <<>>]
    ELSE IF ~o["AccountKeeper"]
    THEN [kind |-> "err", err |-> RequiredOptions[1].err, constructed |-> <<>>]
    ELSE IF ~o["SignModeHandler"]
    THEN [kind |-> "err", err |-> RequiredOptions[3].err, constructed |-> <<>>]
    ELSE IF ~o["WasmConfig"]
    THEN [kind |-> "err", err |-> RequiredOptions[4].err, constructed |-> <<>>]
    ELSE IF ~o["TXCounterStoreService"]
    THEN [kind |-> "err", err |-> RequiredOptions[5].err, constructed |-> <<>>]
    ELSE IF ~o["CircuitKeeper"]
    THEN [kind |-> "err", err |-> RequiredOptions[6].err, constructed |-> <<>>]
    ELSE IF ~o["WasmKeeper"]
    THEN [kind |-> "panic", err |-> "nil pointer dereference",
          constructed |-> SubSeq(anteDecorators, 1, 3)]
    ELSE [kind |-> "ok", err |-> None, constructed |-> anteDecorators]

\* NewAnteHandler(options): kind "err" is (nil, error), kind "ok" is
\* (handler, nil); constructed lists the decorators built before it
\* returned.  The decorator list is built in order, and building the
\* fourth calls a method of options.WasmKeeper, which panics on nil.
NewAnteHandler(o) ==
    IF ~o["AccountKeeper"]
    THEN [kind |-> "err", err |-> RequiredOptions[1].err, constructed |-> <<>>]
    ELSE IF ~o["BankKeeper"]
    THEN [kind |-> "err", err |-> RequiredOptions[2].err, constructed |-> <<>>]
    ELSE IF ~o["SignModeHandler"]
    THEN [kind |-> "err", err |-> RequiredOptions[3].err, constructed |-> <<>>]
    ELSE IF ~o["WasmConfig"]
    THEN [kind |-> "err", err |-> RequiredOptions[4].err, constructed |-> <<>>]
    ELSE IF ~o["TXCounterStoreService"]
    THEN [kind |-> "err", err |-> RequiredOptions[5].err, constructed |-> <<>>]
    ELSE IF ~o["CircuitKeeper"]
    THEN [kind |-> "err", err |-> RequiredOptions[6].err, constructed |-> <<>>]
    ELSE IF ~o["WasmKeeper"]
    THEN [kind |-> "panic", err |-> "nil pointer dereference",
          constructed |-> SubSeq(anteDecorators, 1, 3)]
    ELSE [kind |-> "ok", err |-> None, constructed |-> anteDecorators]

NoBuilt == [called |-> FALSE, kind |-> "err", err |-> None, constructed |-> <<>>]

\* the options the chain of the other specifications was built from
AllOptions == [f \in OptionFields |-> TRUE]

\* a fresh application instance: nothing has called FinalizeBlock; the
\* consensus parameters are in the x/consensus store
BlockIdle ==
    /\ once = FALSE
    /\ consensusParams = [stored |-> TRUE, legacy |-> FALSE]
    /\ finalize = [pc |-> "idle", call |-> 0, hist |-> <<>>]

\* the function RetryableBalanceFunc returns has not been called
NoResult == [balances |-> None, rewards |-> None, length |-> 0, err |-> None]

RetryIdle ==
    retry = [pc |-> "idle", maxRetries |-> 1, attempt |-> 0, calls |-> <<>>,
             res |-> NoResult]

\* the names of the module accounts (the values of the imported constants)
\* and the permissions
Minter == "minter"
Burner == "burner"
Staking == "staking"
GovModuleName == "gov"
AllianceModuleName == "alliance"
FeeabsModuleName == "feeabs"

Nil == "nil"          \* a nil slice
Missing == "missing"  \* the key is not in the map

\* var maccPerms: module account name -> permissions (Nil: a nil slice)
maccPerms ==
    [fee_collector |-> Nil,
     distribution |-> Nil,
     mint |-> <<Minter>>,
     bonded_tokens_pool |-> <<Burner, Staking>>,
     not_bonded_tokens_pool |-> <<Burner, Staking>>,
     gov |-> <<Burner>>,
     nft |-> Nil,
     transfer |-> <<Minter, Burner>>,
     feeibc |-> Nil,
     interchainaccounts |-> Nil,
     wasm |-> <<Burner>>,
     tokenfactory |-> <<Minter, Burner>>,
     alliance |-> <<Minter, Burner>>,
     alliance_rewards |-> Nil,
     feeabs |-> Nil]

\* var allowedReceivingModAcc
allowedReceivingModAcc == [n \in {FeeabsModuleName} |-> TRUE]

ModuleNames == DOMAIN maccPerms

\* a key a caller may insert that names no module account
Intruder == "intruder"
Keys == ModuleNames \cup {Intruder}

\* the slices: one backing array for each non-nil entry of the table, named
\* by its key, and one a caller makes
Fresh == "fresh"
SliceIds == {n \in ModuleNames : maccPerms[n] # Nil} \cup {Fresh}

\* the map literal in memory: key -> slice (or Nil), other keys missing
TableRefs ==
    [k \in Keys |-> IF k \notin ModuleNames THEN Missing
                    ELSE IF maccPerms[k] = Nil THEN Nil ELSE k]

EmptyMap == [k \in Keys |-> Missing]

MapIds == 0..MaxCopies

\* authtypes.NewModuleAddress(name).String(): the address derived from the
\* hash of the name; distinct names give distinct addresses
NewModuleAddress(name) == [hash |-> name]

NoBlocked == [called |-> FALSE, res |-> <<>>]

MaccIdle ==
    /\ mapHeap = [i \in MapIds |-> IF i = 0 THEN TableRefs ELSE EmptyMap]
    /\ sliceHeap = [r \in SliceIds |-> IF r = Fresh THEN <<Minter>> ELSE maccPerms[r]]
    /\ handed = <<>>
    /\ lastDup = EmptyMap
    /\ blocked = NoBlocked
    /\ elementWritten = FALSE

HostIdle == BlockIdle /\ RetryIdle /\ MaccIdle

AppIdle == options = AllOptions /\ built = NoBuilt /\ HostIdle

\* the caller sets or clears a field of the options it is preparing
SetOption(f, present) ==
    /\ ~built.called
    /\ options[f] # present
    /\ options' = [options EXCEPT ![f] = present]
    /\ UNCHANGED <<built, anteVars, resolverVars, hostVars>>

\* a call of NewAnteHandler with the options as they are
CallNewAnteHandler ==
    /\ ~built.called
    /\ built' = [called |-> TRUE] @@ NewAnteHandler(options)
    /\ UNCHANGED <<options, anteVars, resolverVars, hostVars>>

\* the caller has taken what the call returned
DiscardBuilt ==
    /\ built.called
    /\ built' = NoBuilt
    /\ UNCHANGED <<options, anteVars, resolverVars, hostVars>>

(***************************************************************************)
(* Calls of the resolver and administrative changes of the registry.       *)
(***************************************************************************)
NoCall == [coin |-> [denom |-> BondDenom, amount |-> 0], denom |-> BondDenom,
           bondErr |-> FALSE, called |-> FALSE, res |-> Err(None),
           lookups |-> <<>>]
NoHelper == [called |-> FALSE, fn |-> None, coins |-> <<>>,
             ibcDenom |-> "ibc/ABC", res |-> Err(None), lookups |-> <<>>]
NoBack == [called |-> FALSE, res |-> Err(None)]
NoExtra == [called |-> FALSE, readErr |-> FALSE, kind |-> "ok", denoms |-> <<>>]

ResolverIdle ==
    /\ hostZoneConfig = [d \in IbcDenoms |-> Absent]
    /\ twapRate = [d \in IbcDenoms |-> NoRate]
    /\ conv = NoCall
    /\ back = NoBack
    /\ extraDenoms = NoExtra
    /\ helper = NoHelper

\* no resolver call is being observed: calls are synchronous, and the
\* registry changes between them
ResolverQuiet == ~conv.called /\ ~extraDenoms.called /\ ~helper.called

\* governance adds a host zone or sets its status
SetHostZoneConfig(d, st) ==
    /\ ResolverQuiet
    /\ hostZoneConfig' = [hostZoneConfig EXCEPT ![d] = st]
    /\ UNCHANGED <<twapRate, conv, back, extraDenoms, helper, anteVars, appVars>>

\* governance removes a host zone
DeleteHostZoneConfig(d) ==
    /\ ResolverQuiet
    /\ hostZoneConfig[d] # Absent
    /\ hostZoneConfig' = [hostZoneConfig EXCEPT ![d] = Absent]
    /\ UNCHANGED <<twapRate, conv, back, extraDenoms, helper, anteVars, appVars>>

\* the feeabs keeper stores the rate an interchain query returned
SetTwapRate(d, r) ==
    /\ ResolverQuiet
    /\ twapRate' = [twapRate EXCEPT ![d] = r]
    /\ UNCHANGED <<hostZoneConfig, conv, back, extraDenoms, helper, anteVars, appVars>>

\* a call of ConvertToDenom
CallConvertToDenom(coin, denom, bondErr) ==
    /\ ResolverQuiet
    /\ conv' = [coin |-> coin, denom |-> denom, bondErr |-> bondErr,
                called |-> TRUE,
                res |-> ConvertToDenom(hostZoneConfig, twapRate, coin, denom, bondErr),
                lookups |-> ConvertToDenomLookups(hostZoneConfig, twapRate,
                                                  coin, denom, bondErr)]
    /\ UNCHANGED <<hostZoneConfig, twapRate, back, extraDenoms, helper, anteVars, appVars>>

\* the caller converts the coin it got back to the denom it started from
CallConvertBack ==
    /\ conv.called /\ conv.res.kind = "ok" /\ ~back.called
    /\ back' = [called |-> TRUE,
                res |-> ConvertToDenom(hostZoneConfig, twapRate,
                           [denom |-> conv.res.coins[1].denom,
                            amount |-> ToLegacyDec(conv.res.coins[1].amount)],
                           conv.coin.denom, FALSE)]
    /\ UNCHANGED <<hostZoneConfig, twapRate, conv, extraDenoms, helper, anteVars, appVars>>

\* a call of ExtraDenoms that also removes the frozen host zones it meets
CallExtraDenomsPruning(readErr) ==
    /\ ResolverQuiet
    /\ extraDenoms' = [called |-> TRUE, readErr |-> readErr]
                         @@ ExtraDenoms(hostZoneConfig, readErr)
    /\ hostZoneConfig' = [d \in IbcDenoms |->
                            IF hostZoneConfig[d] = "FROZEN" THEN Absent
                            ELSE hostZoneConfig[d]]
    /\ UNCHANGED <<twapRate, conv, back, helper, anteVars, appVars>>

\* a call of ExtraDenoms
CallExtraDenoms(readErr) ==
    /\ ResolverQuiet
    /\ extraDenoms' = [called |-> TRUE, readErr |-> readErr]
                         @@ ExtraDenoms(hostZoneConfig, readErr)
    /\ UNCHANGED <<hostZoneConfig, twapRate, conv, back, helper, anteVars, appVars>>

\* coin bundles (sdk.Coins) of up to MaxCoins coins
HelperCoins == [denom : Denoms, amount : {2}]
Bundles == UNION {[1..n -> HelperCoins] : n \in 0..MaxCoins}

\* a call of getIBCCoinFromNative with a bundle and a host-zone config
CallGetIBCCoinFromNative(coins, d) ==
    /\ ResolverQuiet
    /\ helper' = [called |-> TRUE, fn |-> "getIBCCoinFromNative",
                  coins |-> coins, ibcDenom |-> d,
                  res |-> getIBCCoinFromNative(hostZoneConfig, twapRate, coins, d),
                  lookups |-> getIBCCoinFromNativeLookups(hostZoneConfig,
                                                          twapRate, coins, d)]
    /\ UNCHANGED <<hostZoneConfig, twapRate, conv, back, extraDenoms, anteVars, appVars>>

\* a call of verifyIBCCoins with a bundle
CallVerifyIBCCoins(coins) ==
    /\ ResolverQuiet
    /\ helper' = [called |-> TRUE, fn |-> "verifyIBCCoins",
                  coins |-> coins, ibcDenom |-> "ibc/ABC",
                  res |-> LET err == verifyIBCCoins(hostZoneConfig, coins)
                          IN IF err = None THEN Ok(<<>>) ELSE Err(err),
                  lookups |-> verifyIBCCoinsLookups(coins)]
    /\ UNCHANGED <<hostZoneConfig, twapRate, conv, back, extraDenoms, anteVars, appVars>>

\* the caller has taken the results
ReturnToCaller ==
    /\ ~ResolverQuiet
    /\ conv' = NoCall /\ back' = NoBack /\ extraDenoms' = NoExtra
    /\ helper' = NoHelper
    /\ UNCHANGED <<hostZoneConfig, twapRate, anteVars, appVars>>

Init == AnteInit /\ ResolverIdle /\ AppIdle

Next ==
    \/ \E t \in Txs, m \in Modes : Admit(t, m)
    \/ SetUpContext
    \/ LimitSimulationGas
    \/ CountTX
    \/ GasRegister
    \/ CircuitBreaker
    \/ ExtensionOptions
    \/ FeeMarketCheck
    \/ ValidateBasic
    \/ TxTimeoutHeight
    \/ ValidateMemo
    \/ ConsumeGasForTxSize
    \/ DeductFee
    \/ SetPubKey
    \/ ValidateSigCount
    \/ SigGasConsume
    \/ SigVerification
    \/ IncrementSequence
    \/ RedundantRelay
    \/ Terminal

Spec == Init /\ [][Next]_vars


AnteIdle ==
    /\ AnteInit
    /\ balance = MaxBalance
    /\ feemarketParams = [enabled |-> TRUE]

InitResolver == AnteIdle /\ ResolverIdle /\ AppIdle

NextResolver ==
    \/ \E d \in IbcDenoms, st \in Statuses : SetHostZoneConfig(d, st)
    \/ \E d \in IbcDenoms : DeleteHostZoneConfig(d)
    \/ \E d \in IbcDenoms, r \in Rates \cup {NoRate} : SetTwapRate(d, r)
    \/ \E coin \in DecCoins, denom \in Denoms, bondErr \in BOOLEAN :
           CallConvertToDenom(coin, denom, bondErr)
    \/ CallConvertBack
    \/ \E readErr \in BOOLEAN : CallExtraDenoms(readErr)
    \/ \E coins \in Bundles, d \in IbcDenoms : CallGetIBCCoinFromNative(coins, d)
    \/ \E coins \in Bundles : CallVerifyIBCCoins(coins)
    \/ ReturnToCaller

SpecResolver == InitResolver /\ [][NextResolver]_vars

(***************************************************************************)
(* The chain on transactions that offer a fee in the native or in a        *)
(* foreign denom, over fee markets, node configurations and registries.    *)
(***************************************************************************)
FeeAsset == "ibc/XYZ"

\* one signer with a valid signature, gas for every stage
FeeTxs == [gas: {TxSizeGas + SigVerifyGas}, fee: 0..MaxOffer,
           feeDenom: {BondDenom, FeeAsset}, sigs: {<<TRUE>>}, sequence: {0},
           defect: {Unspecified}]

\* what the payer holds of each denom: enough to pay the largest offer twice
PayerFunds == 2 * MaxOffer

InitFee ==
    /\ balance = PayerFunds
    /\ ibcBalance = [d \in IbcDenoms |-> PayerFunds]
    /\ feemarketParams \in [enabled : BOOLEAN]
    /\ baseGasPrice \in {OneDec \div 2, OneDec, (3 * OneDec) \div 2}
    /\ minGasPrices \in {NoMinGasPrices, [denom |-> BondDenom, amount |-> OneDec]}
    /\ \E st \in {Absent, "UPDATED", "FROZEN"} :
           hostZoneConfig = [d \in IbcDenoms |-> IF d = FeeAsset THEN st ELSE Absent]
    /\ \E r \in {OneDec \div 2, OneDec, 2 * OneDec} :
           twapRate = [d \in IbcDenoms |-> IF d = FeeAsset THEN r ELSE NoRate]
    /\ conv = NoCall
    /\ back = NoBack
    /\ extraDenoms = NoExtra
    /\ helper = NoHelper
    /\ AppIdle
    /\ AnteStart

NextFee ==
    \/ \E t \in FeeTxs, m \in Modes : Admit(t, m)
    \/ SetUpContext
    \/ LimitSimulationGas
    \/ CountTX
    \/ GasRegister
    \/ CircuitBreaker
    \/ ExtensionOptions
    \/ FeeMarketCheck
    \/ ValidateBasic
    \/ TxTimeoutHeight
    \/ ValidateMemo
    \/ ConsumeGasForTxSize
    \/ DeductFee
    \/ SetPubKey
    \/ ValidateSigCount
    \/ SigGasConsume
    \/ SigVerification
    \/ IncrementSequence
    \/ RedundantRelay
    \/ Terminal

SpecFee == InitFee /\ [][NextFee]_vars

(***************************************************************************)
(* The chain run twice on one transaction from one state snapshot; what    *)
(* the stateless checks find is part of the transaction.                   *)
(***************************************************************************)
StatelessStages == {"CircuitBreaker", "ExtensionOptions", "ValidateBasic",
                    "TxTimeoutHeight", "ValidateMemo", "SetPubKey",
                    "ValidateSigCount", "RedundantRelay"}

TwinTxs == [gas: {TxSizeGas + SigVerifyGas}, fee: 0..MaxFee,
            feeDenom: {BondDenom}, sigs: {<<TRUE>>, <<FALSE>>},
            sequence: {0, 1}, defect: {None} \cup StatelessStages]

InitTwin ==
    /\ balance \in {0, MaxBalance}
    /\ ibcBalance = [d \in IbcDenoms |-> 0]
    /\ feemarketParams \in [enabled : BOOLEAN]
    /\ baseGasPrice = (3 * OneDec) \div 10
    /\ minGasPrices \in {NoMinGasPrices,
                          [denom |-> BondDenom, amount |-> OneDec \div 2]}
    /\ ResolverIdle
    /\ AppIdle
    /\ AnteStart

NextTwin ==
    \/ \E t \in TwinTxs, m \in Modes : Admit(t, m)
    \/ \E m \in Modes : AdmitAgain(m)
    \/ SetUpContext
    \/ LimitSimulationGas
    \/ CountTX
    \/ GasRegister
    \/ CircuitBreaker
    \/ ExtensionOptions
    \/ FeeMarketCheck
    \/ ValidateBasic
    \/ TxTimeoutHeight
    \/ ValidateMemo
    \/ ConsumeGasForTxSize
    \/ DeductFee
    \/ SetPubKey
    \/ ValidateSigCount
    \/ SigGasConsume
    \/ SigVerification
    \/ IncrementSequence
    \/ RedundantRelay
    \/ Terminal

SpecTwin == InitTwin /\ [][NextTwin]_vars

(***************************************************************************)
(* EveApp.FinalizeBlock.                                                   *)
(***************************************************************************)
\* what happened so far: <<call number, event>>
Event(ev) == [call |-> finalize.call, ev |-> ev]

blockRest == <<anteVars, resolverVars, options, built, retryVars, maccVars>>

\* the node calls FinalizeBlock for the next block; calls do not overlap
CallFinalizeBlock ==
    /\ finalize.pc = "idle"
    /\ finalize.call < MaxBlocks
    /\ finalize' = [pc |-> "once", call |-> finalize.call + 1,
                    hist |-> Append(finalize.hist,
                                    [call |-> finalize.call + 1, ev |-> "call"])]
    /\ UNCHANGED <<once, consensusParams, blockRest>>

\* a once.Do that runs its function whether or not it has run before
OnceDoEveryCall ==
    /\ finalize.pc = "once"
    /\ once' = TRUE
    /\ IF consensusParams.stored
       THEN /\ finalize' = [finalize EXCEPT !.pc = "delegate",
                                !.hist = Append(@, Event("check"))]
            /\ UNCHANGED consensusParams
       ELSE \E setErr \in BOOLEAN :
               IF consensusParams.legacy /\ setErr
               THEN /\ finalize' = [finalize EXCEPT !.pc = "idle",
                           !.hist = Append(Append(@, Event("check")), Event("panic"))]
                    /\ UNCHANGED consensusParams
               ELSE /\ finalize' = [finalize EXCEPT !.pc = "delegate",
                           !.hist = Append(Append(@, Event("check")), Event("migrate"))]
                    /\ consensusParams' = [consensusParams EXCEPT
                                               !.stored = consensusParams.legacy]
    /\ UNCHANGED blockRest

\* app.once.Do(func): sync.Once runs the function in the first Do only and
\* counts it as run even when it panics.  The function queries the consensus
\* parameters; when the query fails it migrates them from the legacy
\* subspace (baseapp.MigrateParams stores them when the subspace has them,
\* and only logs otherwise) and panics when the migration fails.
OnceDo ==
    /\ finalize.pc = "once"
    /\ IF once
       THEN /\ finalize' = [finalize EXCEPT !.pc = "delegate"]
            /\ UNCHANGED <<once, consensusParams>>
       ELSE /\ once' = TRUE
            /\ IF consensusParams.stored
               THEN /\ finalize' = [finalize EXCEPT !.pc = "delegate",
                                        !.hist = Append(@, Event("check"))]
                    /\ UNCHANGED consensusParams
               ELSE \E setErr \in BOOLEAN :
                       IF consensusParams.legacy /\ setErr
                       THEN /\ finalize' = [finalize EXCEPT !.pc = "idle",
                                   !.hist = Append(Append(@, Event("check")),
                                                   Event("panic"))]
                            /\ UNCHANGED consensusParams
                       ELSE /\ finalize' = [finalize EXCEPT !.pc = "delegate",
                                   !.hist = Append(Append(@, Event("check")),
                                                   Event("migrate"))]
                            /\ consensusParams' = [consensusParams EXCEPT
                                                       !.stored = consensusParams.legacy]
    /\ UNCHANGED blockRest

\* return app.BaseApp.FinalizeBlock(req): the call and what it returned
Delegate ==
    /\ finalize.pc = "delegate"
    /\ \E baseErr \in BOOLEAN :
          finalize' = [finalize EXCEPT !.pc = "idle",
              !.hist = Append(Append(@, Event("delegate")),
                              Event(IF baseErr THEN "return error" ELSE "return"))]
    /\ UNCHANGED <<once, consensusParams, blockRest>>

InitBlock ==
    /\ AnteIdle
    /\ ResolverIdle
    /\ options = AllOptions
    /\ built = NoBuilt
    /\ RetryIdle
    /\ MaccIdle
    /\ once = FALSE
    /\ consensusParams \in [stored : BOOLEAN, legacy : BOOLEAN]
    /\ finalize = [pc |-> "idle", call |-> 0, hist |-> <<>>]

NextBlock ==
    \/ CallFinalizeBlock
    \/ OnceDo
    \/ Delegate

SpecBlock == InitBlock /\ [][NextBlock]_vars

(***************************************************************************)
(* RetryableBalanceFunc.                                                   *)
(***************************************************************************)
retryRest == <<anteVars, resolverVars, options, built, blockVars, maccVars>>

\* what a call of fn can return: data with a nil error, or an error (with
\* whatever data fn returns beside it); fn can also panic
FnResults ==
    [balances : {None, "b1", "b2"}, rewards : {None, "r1"}, length : 0..1,
     err : {None, "fetch failed"}]
FnPanic == [balances |-> None, rewards |-> None, length |-> 0, err |-> "panic"]

\* the caller calls the function RetryableBalanceFunc(fn) returned:
\* attempt := 1
CallRetryable ==
    /\ retry.pc = "idle"
    /\ retry' = [retry EXCEPT !.pc = "loop", !.attempt = 1]
    /\ UNCHANGED <<blockVars, retryRest>>

\* a loop test that allows one attempt more than config.MaxRetries
LoopTestOneMore ==
    /\ retry.pc = "loop"
    /\ IF retry.attempt <= retry.maxRetries + 1
       THEN retry' = [retry EXCEPT !.pc = "call"]
       ELSE retry' = [retry EXCEPT !.pc = "returned",
                         !.res = [balances |-> None, rewards |-> None,
                                  length |-> 0,
                                  err |-> "maximum retries reached"]]
    /\ UNCHANGED <<blockVars, retryRest>>

\* attempt <= config.MaxRetries, and the return after the loop
LoopTest ==
    /\ retry.pc = "loop"
    /\ IF retry.attempt <= retry.maxRetries
       THEN retry' = [retry EXCEPT !.pc = "call"]
       ELSE retry' = [retry EXCEPT !.pc = "returned",
                         !.res = [balances |-> None, rewards |-> None,
                                  length |-> 0,
                                  err |-> "maximum retries reached"]]
    /\ UNCHANGED <<blockVars, retryRest>>

\* balances, rewards, length, err := fn(): return them when err is nil,
\* print and go to the next attempt otherwise; a panic of fn is not recovered
CallFn ==
    /\ retry.pc = "call"
    /\ \E r \in FnResults \cup {FnPanic} :
          retry' = [retry EXCEPT
                       !.calls = Append(@, r),
                       !.pc = IF r.err = None THEN "returned"
                              ELSE IF r = FnPanic THEN "panicked" ELSE "loop",
                       !.res = IF r.err = None THEN r ELSE @,
                       !.attempt = IF r.err = None \/ r = FnPanic THEN @ ELSE @ + 1]
    /\ UNCHANGED <<blockVars, retryRest>>

InitRetry ==
    /\ AnteIdle
    /\ ResolverIdle
    /\ options = AllOptions
    /\ built = NoBuilt
    /\ BlockIdle
    /\ MaccIdle
    /\ \E m \in -1..MaxRetriesBound :
          retry = [pc |-> "idle", maxRetries |-> m, attempt |-> 0,
                   calls |-> <<>>, res |-> NoResult]

NextRetry ==
    \/ CallRetryable
    \/ LoopTest
    \/ CallFn

\* the loop is sequential code: it takes its next step as long as it has one
SpecRetry == InitRetry /\ [][NextRetry]_vars /\ WF_vars(NextRetry)

(***************************************************************************)
(* GetMaccPerms, BlockedAddresses and what callers do with the maps.       *)
(***************************************************************************)
maccRest == <<anteVars, resolverVars, options, built, blockVars, retryVars>>

\* what a reader of map id sees: key -> permissions
View(maps, slices, id) ==
    [k \in Keys |-> IF maps[id][k] \in {Missing, Nil} THEN maps[id][k]
                    ELSE slices[maps[id][k]]]

\* a GetMaccPerms that returns the package-level map itself
GetMaccPermsAliasing(maps, new) == [maps |-> maps, ret |-> 0]

\* GetMaccPerms(): a new map with dup[k] = v for every k, v of maccPerms;
\* new is the id of the map make() allocates
GetMaccPerms(maps, new) ==
    [maps |-> [maps EXCEPT ![new] =
                  [k \in Keys |-> IF maps[0][k] # Missing THEN maps[0][k]
                                  ELSE Missing]],
     ret |-> new]

\* the keys of a map
KeysOf(m) == {k \in Keys : m[k] # Missing}

\* a BlockedAddresses that unblocks the governance account only
BlockedAddressesGovOnly(maps) ==
    LET all == {NewModuleAddress(acc) : acc \in KeysOf(maps[0])}
    IN [a \in all \ {NewModuleAddress(GovModuleName)} |-> TRUE]

\* BlockedAddresses(): an entry true for the address of every key of
\* GetMaccPerms(), then the two deletes
BlockedAddresses(maps) ==
    LET all == {NewModuleAddress(acc) : acc \in KeysOf(maps[0])}
        modAccAddrs == [a \in all |-> TRUE]
        afterGov == [a \in DOMAIN modAccAddrs \ {NewModuleAddress(GovModuleName)}
                        |-> modAccAddrs[a]]
    IN [a \in DOMAIN afterGov \ {NewModuleAddress(AllianceModuleName)}
           |-> afterGov[a]]

\* a call of GetMaccPerms
CallGetMaccPerms ==
    /\ Len(handed) < MaxCopies
    /\ LET r == GetMaccPerms(mapHeap, Len(handed) + 1)
       IN /\ mapHeap' = r.maps
          /\ handed' = Append(handed, r.ret)
          /\ lastDup' = View(r.maps, sliceHeap, r.ret)
    /\ UNCHANGED <<sliceHeap, blocked, elementWritten, maccRest>>

\* the keys callers touch, and the maps they hold
MutKeys == {GovModuleName, FeeabsModuleName, Intruder}
Held == {handed[i] : i \in 1..Len(handed)}

\* a caller assigns m[k] = a slice of its own: an insertion or a reassignment
AssignKey(id, k) ==
    /\ id \in Held
    /\ mapHeap[id][k] # Fresh
    /\ mapHeap' = [mapHeap EXCEPT ![id][k] = Fresh]
    /\ UNCHANGED <<sliceHeap, handed, lastDup, blocked, elementWritten, maccRest>>

\* a caller deletes a key: delete(m, k)
DeleteKey(id, k) ==
    /\ id \in Held
    /\ mapHeap[id][k] # Missing
    /\ mapHeap' = [mapHeap EXCEPT ![id][k] = Missing]
    /\ UNCHANGED <<sliceHeap, handed, lastDup, blocked, elementWritten, maccRest>>

\* a caller writes an element of a slice it reads from its map: m[k][0] = x
WriteElement(id, k) ==
    /\ id \in Held
    /\ mapHeap[id][k] \notin {Missing, Nil}
    /\ sliceHeap[mapHeap[id][k]][1] # "written"
    /\ sliceHeap' = [sliceHeap EXCEPT ![mapHeap[id][k]][1] = "written"]
    /\ elementWritten' = TRUE
    /\ UNCHANGED <<mapHeap, handed, lastDup, blocked, maccRest>>

\* a call of BlockedAddresses
CallBlockedAddresses ==
    /\ blocked' = [called |-> TRUE, res |-> BlockedAddresses(mapHeap)]
    /\ UNCHANGED <<mapHeap, sliceHeap, handed, lastDup, elementWritten, maccRest>>

InitMacc ==
    /\ AnteIdle
    /\ ResolverIdle
    /\ options = AllOptions
    /\ built = NoBuilt
    /\ BlockIdle
    /\ RetryIdle
    /\ MaccIdle

NextMacc ==
    \/ CallGetMaccPerms
    \/ \E id \in MapIds, k \in MutKeys : AssignKey(id, k)
    \/ \E id \in MapIds, k \in MutKeys : DeleteKey(id, k)
    \/ \E id \in MapIds, k \in MutKeys : WriteElement(id, k)
    \/ CallBlockedAddresses

SpecMacc == InitMacc /\ [][NextMacc]_vars

(***************************************************************************)
(* Construction of the chain from options a caller prepares.               *)
(***************************************************************************)
InitBuild ==
    /\ AnteIdle
    /\ ResolverIdle
    /\ options = [f \in OptionFields |-> FALSE]
    /\ built = NoBuilt
    /\ HostIdle

NextBuild ==
    \/ \E f \in OptionFields, present \in BOOLEAN : SetOption(f, present)
    \/ CallNewAnteHandler
    \/ DiscardBuilt

SpecBuild == InitBuild /\ [][NextBuild]_vars

(***************************************************************************)
(* Properties of the ante chain.                                           *)
(***************************************************************************)
StageName(i) == anteDecorators[i]
Ran(name) == \E k \in 1..Len(executed) : StageName(executed[k]) = name
FailedIn(name) == status = "failed" /\ StageName(failedAt) = name

\* stage b has run only after stage a ran, and a went on to call next
PrecededBy(b, a) ==
    \A k \in 1..Len(executed) :
        StageName(executed[k]) = b =>
            \E j \in 1..(k - 1) : StageName(executed[j]) = a

Min(S) == CHOOSE x \in S : \A y \in S : x <= y

PreLimitStages == {"LimitSimulationGas", "CountTX", "GasRegister"}
StructuralStages == {"ValidateBasic", "TxTimeoutHeight", "ValidateMemo"}
FeeStages == {"FeeMarketCheck", "DeductFee"}
SignerStages == <<"SetPubKey", "ValidateSigCount", "SigGasConsume",
                  "SigVerification", "IncrementSequence">>
SignerStageSet == {SignerStages[k] : k \in 1..Len(SignerStages)}

SequencesUnchanged ==
    \A i \in Signers : accounts[i].sequence = accounts0[i].sequence

\* the stages of the chain that take the fee from the payer in this call
DebitingStages ==
    IF feemarketParams.enabled
    THEN {StageIndex("DeductFee")}
    ELSE {StageIndex("FeeMarketCheck"), StageIndex("DeductFee")}

\* C1: the stages run strictly in list order, each once, and a rejection
\* ends the run: the rejecting stage is the last one executed, and nothing a
\* later stage would change has changed (no fee debit when the run failed
\* before the first fee stage, no sequence increment when it failed before
\* IncrementSequence, no gas charge when it failed before
\* ConsumeGasForTxSize).
C1_OrderAndShortCircuit ==
    /\ \A k \in 1..Len(executed) : executed[k] = k
    /\ status = "ok" => Len(executed) = NumStages
    /\ status = "failed" =>
        /\ failedAt = Len(executed)
        /\ pc = failedAt
        /\ failedAt < Min({StageIndex(f) : f \in FeeStages}) =>
               balance = balance0 /\ debits = <<>>
        /\ failedAt < StageIndex("IncrementSequence") => SequencesUnchanged
        /\ failedAt < StageIndex("ConsumeGasForTxSize") => gasMeter.consumed = 0

C1_Witness ==
    /\ FailedIn("ValidateMemo")
    /\ tx.fee > 0
    /\ Len(tx.sigs) = 2
    /\ SequencesUnchanged

C3_NoSequenceDrift ==
    /\ FailedIn("SigVerification") => SequencesUnchanged
    /\ (status # "idle" /\ ~Simulate /\ \E i \in TxSigners(tx) : ~tx.sigs[i]) =>
        /\ status # "ok"
        /\ ~Ran("IncrementSequence")
        /\ SequencesUnchanged

C3_Witness ==
    /\ FailedIn("SigVerification")
    /\ errKind = "ErrUnauthorized"
    /\ tx.sigs = <<TRUE, FALSE>>
    /\ SequencesUnchanged

\* C4 as claimed: an admitted transaction that offers a fee is debited
\* exactly once, for that fee, with the fee market enabled or disabled.
C4_SingleDebit ==
    (status = "ok" /\ tx.fee > 0) =>
        /\ Len(debits) = 1
        /\ balance = balance0 - tx.fee

\* C5 as claimed: no fee stage runs before basic validation, timeout height,
\* memo and size gas consumption have completed, and every fee stage runs
\* before any signer stage.
C5_FeeAfterValidation ==
    /\ \A f \in FeeStages :
           \A s \in StructuralStages \cup {"ConsumeGasForTxSize"} :
               PrecededBy(f, s)
    /\ \A g \in SignerStageSet : \A f \in FeeStages : PrecededBy(g, f)

\* C5 amended: the deduct-fee stage runs only after basic validation,
\* timeout height, memo and size gas consumption have completed; the
\* fee-market check (with its nested deduct stage) runs before them, after
\* the circuit breaker and the extension-option check; every fee stage runs
\* before any signer stage.
C5_FeeStageOrder ==
    /\ \A s \in StructuralStages \cup {"ConsumeGasForTxSize"} :
           /\ PrecededBy("DeductFee", s)
           /\ PrecededBy(s, "FeeMarketCheck")
    /\ PrecededBy("FeeMarketCheck", "CircuitBreaker")
    /\ PrecededBy("FeeMarketCheck", "ExtensionOptions")
    /\ \A g \in SignerStageSet : \A f \in FeeStages : PrecededBy(g, f)

C5_Witness ==
    /\ FailedIn("ValidateBasic")
    /\ debits = <<StageIndex("FeeMarketCheck")>>
    /\ balance < balance0

\* C6: SetPubKey, ValidateSigCount, SigGasConsume, SigVerification and
\* IncrementSequence run in this order, each only after all the ones before
\* it went on, and RedundantRelay is the last stage: it runs only after
\* every other stage of the chain went on.
C6_SignerStageOrder ==
    /\ \A a, b \in 1..Len(SignerStages) :
           a < b => PrecededBy(SignerStages[b], SignerStages[a])
    /\ \A i \in 1..NumStages :
           StageName(i) # "RedundantRelay" => PrecededBy("RedundantRelay", StageName(i))
    /\ Ran("RedundantRelay") => Len(executed) = NumStages

C6_Witness ==
    /\ FailedIn("RedundantRelay")
    /\ Ran("IncrementSequence")
    /\ ~SequencesUnchanged

\* C7: SetUpContext is the first stage of every run, the pre-limit stages
\* (LimitSimulationGas, CountTX, GasRegister) are the next three, the circuit
\* breaker runs after them and before every structural, fee and signer
\* stage; when the circuit breaker rejects, no basic validation, fee or
\* signer stage has run and the payer and the signers are untouched.
C7_SetupAndBreakerFirst ==
    /\ Len(executed) >= 1 => StageName(executed[1]) = "SetUpContext"
    /\ \A k \in 2..4 :
           k <= Len(executed) => StageName(executed[k]) \in PreLimitStages
    /\ \A p \in PreLimitStages : PrecededBy("CircuitBreaker", p)
    /\ \A s \in StructuralStages \cup FeeStages \cup SignerStageSet
                \cup {"ConsumeGasForTxSize"} :
           PrecededBy(s, "CircuitBreaker")
    /\ FailedIn("CircuitBreaker") =>
        /\ \A s \in StructuralStages \cup FeeStages \cup SignerStageSet : ~Ran(s)
        /\ balance = balance0
        /\ accounts = accounts0
        /\ gasMeter.consumed = 0

C7_Witness ==
    /\ FailedIn("CircuitBreaker")
    /\ errKind = "tx type not allowed"
    /\ Len(executed) = 5

(***************************************************************************)
(* Properties of the denom resolver.                                       *)
(***************************************************************************)
Abs(x) == IF x < 0 THEN -x ELSE x

\* m is the integer nearest to x / precisionReuse, a half going to the even one
NearestEven(m, x) ==
    /\ 2 * Abs(m * precisionReuse - x) <= precisionReuse
    /\ 2 * Abs(m * precisionReuse - x) = precisionReuse => m % 2 = 0

\* n / r rounded half away from zero, for a decimal n >= 0 and a rate r > 0
RoundHalfAway(n, r) == (2 * n + r) \div (2 * r)

\* the last call converted a coin of a registered, enabled asset with a
\* positive rate to the bond denom
ToNativeCall ==
    /\ conv.called
    /\ ~conv.bondErr
    /\ conv.denom = BondDenom
    /\ conv.coin.denom \in IbcDenoms
    /\ hostZoneConfig[conv.coin.denom] = "UPDATED"
    /\ twapRate[conv.coin.denom] > 0

\* C8 as claimed: converting n of a registered asset with rate r > 0 to the
\* bond denom returns a coin of the bond denom whose amount is n / r rounded
\* half away from zero.
C8_ToNativeRoundsHalfAway ==
    ToNativeCall =>
        /\ conv.res.kind = "ok"
        /\ conv.res.coins[1].denom = BondDenom
        /\ conv.res.coins[1].amount
               = RoundHalfAway(conv.coin.amount, twapRate[conv.coin.denom])

\* C8 amended: the amount n is first truncated to whole units; the call
\* returns an error when that is zero; otherwise the quotient by r is taken
\* as a decimal (rounded at its last digit) and rounded to an integer with
\* a half going to the even neighbour; the call returns an error when that
\* integer is zero and otherwise a coin of the bond denom with that amount.
C8_ToNativeRoundsHalfEven ==
    ToNativeCall =>
        LET n == conv.coin.amount \div precisionReuse
            r == twapRate[conv.coin.denom]
            t == (n * precisionReuse * precisionReuse * precisionReuse) \div r
            res == conv.res
        IN IF n = 0 THEN res.kind = "err"
           ELSE \E m \in 0..(2 * n + 1) :
                  /\ \E q \in 0..((2 * n + 1) * precisionReuse) :
                         NearestEven(q, t) /\ NearestEven(m, q)
                  /\ IF m = 0 THEN res.kind = "err"
                     ELSE /\ res.kind = "ok"
                          /\ res.coins = <<[denom |-> BondDenom, amount |-> m]>>

C8_Witness ==
    /\ ToNativeCall
    /\ conv.coin.amount = 5 * OneDec
    /\ twapRate[conv.coin.denom] = 2 * OneDec
    /\ conv.res.kind = "ok"
    /\ conv.res.coins[1].amount = 2

\* a coin was converted to the bond denom and the result converted back
RoundTripDone == ToNativeCall /\ conv.res.kind = "ok" /\ back.called

\* C9 as claimed: converting a coin of a registered asset with rate r > 0 to
\* the bond denom and the result back yields a coin of the asset whose
\* amount differs from the coin's amount by at most one unit.
C9_RoundTripWithinOneUnit ==
    (ToNativeCall /\ back.called) =>
        /\ back.res.kind = "ok"
        /\ back.res.coins[1].denom = conv.coin.denom
        /\ Abs(ToLegacyDec(back.res.coins[1].amount) - conv.coin.amount) <= OneDec

\* C9 amended: when the conversion to the bond denom succeeds, converting
\* its result back succeeds and yields a coin of the asset whose amount
\* differs from the coin's whole-unit amount by at most r/2 + 1 units, so by
\* at most one unit when r <= 2.
C9_RoundTripWithinHalfRate ==
    RoundTripDone =>
        LET n == conv.coin.amount \div precisionReuse
            r == twapRate[conv.coin.denom]
        IN /\ back.res.kind = "ok"
           /\ back.res.coins[1].denom = conv.coin.denom
           /\ 2 * precisionReuse * Abs(back.res.coins[1].amount - n)
                  <= r + 2 * precisionReuse
           /\ r <= 2 * OneDec => Abs(back.res.coins[1].amount - n) <= 1

C9_Witness ==
    /\ RoundTripDone
    /\ conv.coin.amount = 6 * OneDec
    /\ twapRate[conv.coin.denom] = 4 * OneDec
    /\ back.res.kind = "ok"
    /\ back.res.coins[1].amount = 8

\* C10 as claimed: for an asset that is absent from the registry, or
\* registered but disabled (frozen), ConvertToDenom never returns a
\* converted coin, neither with the asset as the source converted to the
\* bond denom nor with the asset as the target converted from the bond denom.
C10_RejectsAbsentOrDisabled ==
    \A d \in IbcDenoms :
        (/\ conv.called
         /\ hostZoneConfig[d] \in {Absent, "FROZEN"}
         /\ \/ conv.coin.denom = d /\ conv.denom = BondDenom
            \/ conv.coin.denom = BondDenom /\ conv.denom = d)
        => conv.res.kind # "ok"

\* the foreign asset a call is about: the coin's denom when converting to the
\* bond denom, the target denom otherwise
CallAsset == IF conv.denom = BondDenom THEN conv.coin.denom ELSE conv.denom

\* C11 as claimed: for a registered, enabled asset with a positive rate,
\* ConvertToDenom returns a coin and no error for every non-negative amount,
\* in both directions (amounts below one unit and amounts whose converted
\* value rounds to zero included); for an asset that is absent or disabled
\* it returns an error.
C11_TotalOverEnabled ==
    (conv.called /\ ~conv.bondErr) =>
        IF /\ CallAsset \in IbcDenoms
           /\ hostZoneConfig[CallAsset] = "UPDATED"
           /\ twapRate[CallAsset] > 0
        THEN conv.res.kind = "ok"
        ELSE (CallAsset \notin IbcDenoms
              \/ hostZoneConfig[CallAsset] \in {Absent, "FROZEN"})
             => conv.res.kind = "err"

\* d is in the list the last ExtraDenoms call returned
Listed(d) == \E k \in 1..Len(extraDenoms.denoms) : extraDenoms.denoms[k] = d

\* C12 as claimed: the list ExtraDenoms returns contains a denom exactly when
\* the denom is registered and enabled; a registered but disabled (frozen)
\* denom is not listed.
C12_ListsEnabledOnly ==
    (extraDenoms.called /\ extraDenoms.kind = "ok") =>
        \A d \in IbcDenoms :
            /\ hostZoneConfig[d] = "UPDATED" => Listed(d)
            /\ hostZoneConfig[d] \in {Absent, "FROZEN"} => ~Listed(d)

\* C12 amended: after any sequence of administrative actions, the list
\* ExtraDenoms returns contains a denom exactly when the denom is registered
\* at the time of the call, whatever its status; a removed denom is not
\* listed; when the registry cannot be read the call returns an error and
\* no list.
C12_ListsRegistered ==
    extraDenoms.called =>
        IF extraDenoms.kind = "ok"
        THEN \A d \in IbcDenoms : Listed(d) <=> hostZoneConfig[d] # Absent
        ELSE extraDenoms.denoms = <<>>

C12_Witness ==
    /\ extraDenoms.called
    /\ extraDenoms.kind = "ok"
    /\ hostZoneConfig["ibc/ABC"] = "FROZEN"
    /\ hostZoneConfig["ibc/XYZ"] = Absent
    /\ twapRate["ibc/XYZ"] # NoRate
    /\ extraDenoms.denoms = <<"ibc/ABC">>

\* the lookups of a call that touch the registry or the rate store
RegistryLookups(l) ==
    SelectSeq(l, LAMBDA x : x \in {"GetHostZoneConfig", "HasHostZoneConfig",
                                   "GetTwapRate"})

\* the bundle ConvertToDenom builds from the coin it is given holds no coin
EmptyBundleCall ==
    /\ conv.called
    /\ ~conv.bondErr
    /\ NewCoins([denom |-> conv.coin.denom,
                 amount |-> TruncateInt(conv.coin.amount)]) = <<>>

\* C13 as claimed: a bundle that does not hold exactly one coin is rejected
\* with an error before any registry or rate lookup is made, by the helpers
\* and by ConvertToDenom.
C13_BundleRejectedBeforeLookup ==
    /\ (helper.called /\ Len(helper.coins) # 1) =>
           helper.res.kind = "err" /\ helper.lookups = <<>>
    /\ EmptyBundleCall =>
           conv.res.kind = "err" /\ RegistryLookups(conv.lookups) = <<>>

\* C13 amended: getIBCCoinFromNative and verifyIBCCoins reject a bundle that
\* does not hold exactly one coin with an error before any lookup of their
\* own; ConvertToDenom rejects the empty bundle it builds from a coin of
\* less than one unit with an error too, but only after it has looked up the
\* host-zone config of the foreign denom: it makes no rate lookup, and when
\* the host zone is not registered no helper is reached.
C13_HelpersRejectBeforeLookup ==
    /\ (helper.called /\ Len(helper.coins) # 1) =>
           helper.res.kind = "err" /\ helper.lookups = <<>>
    /\ EmptyBundleCall =>
           /\ conv.res.kind = "err"
           /\ conv.lookups = <<"BondDenom", "GetHostZoneConfig">>
           /\ conv.res.err = IF ~HasHostZoneConfig(hostZoneConfig, CallAsset)
                             THEN "error resolving denom"
                             ELSE IF conv.denom = BondDenom
                             THEN "expected exactly one native coin"
                             ELSE "ErrInvalidIBCFees"

C13_Witness ==
    /\ helper.called
    /\ helper.fn = "getIBCCoinFromNative"
    /\ Len(helper.coins) = 2
    /\ helper.coins[1].denom # helper.coins[2].denom
    /\ hostZoneConfig[helper.ibcDenom] = "UPDATED"
    /\ twapRate[helper.ibcDenom] = OneDec
    /\ helper.res.err = "expected exactly one native coin"

(***************************************************************************)
(* Properties of the fee stage.                                            *)
(***************************************************************************)
\* the minimum fee of the call in the native denom: what the fee market's
\* base gas price asks of the transaction's gas limit
RequiredNative == RequiredFee(baseGasPrice, tx.gas)

\* the offered fee in the native denom, through the resolver when the fee
\* is in a foreign denom
OfferedNative ==
    IF tx.feeDenom = BondDenom
    THEN Ok(<<[denom |-> BondDenom, amount |-> tx.fee]>>)
    ELSE ConvertToDenom(hostZoneConfig, twapRate,
             [denom |-> tx.feeDenom, amount |-> ToLegacyDec(tx.fee)],
             BondDenom, FALSE)

\* C14 as claimed, where the fee market is on and a fee is checked (outside
\* simulation): an admitted transaction offered a fee whose native
\* equivalent, through the resolver for a foreign denom, is at least the
\* required minimum fee; a smaller offer or a resolver failure makes Admit
\* fail.
C14_AdmittedPaidRequired ==
    (status = "ok" /\ ~Simulate /\ feemarketParams.enabled) =>
        /\ OfferedNative.kind = "ok"
        /\ OfferedNative.coins[1].amount >= RequiredNative

\* the chain has gone past both fee stages
FeeStagePassed == status # "idle" /\ pc > StageIndex("DeductFee")

\* the payer's balance of a denom when the call started
PayerBalance0(d) == IF d = BondDenom THEN balance0 ELSE ibcBalance0[d]

\* what the call has taken from the payer in the fee's denom
Debited == PayerBalance0(tx.feeDenom) - PayerBalance(tx.feeDenom)

\* the required fee in the offered denom: what the minimum gas price the
\* fee-market check put in the context asks of the gas limit
RequiredOffered ==
    IF minGasPrices.denom = tx.feeDenom
    THEN RequiredFee(minGasPrices.amount, tx.gas)
    ELSE 0

\* C15 as claimed, with the fee market on: when the fee stage succeeds on an
\* offer that exceeds the required fee, the payer is debited the required
\* fee in the offered denom and keeps the remainder.
C15_DebitsRequiredOnly ==
    (FeeStagePassed /\ feemarketParams.enabled /\ tx.fee > RequiredOffered) =>
        Debited = RequiredOffered

\* C15 amended: when the fee stage succeeds the payer is debited the whole
\* offered fee, in the offered denom, by every deduct-fee decorator that
\* runs: once with the fee market on, twice with the fee market off; no
\* other balance of the payer changes and nothing of the offer is left.
C15_DebitsFullOffer ==
    FeeStagePassed =>
        /\ Debited = tx.fee * Cardinality(DebitingStages)
        /\ \A d \in Denoms : d # tx.feeDenom => PayerBalance(d) = PayerBalance0(d)

C15_Witness ==
    /\ status = "ok"
    /\ mode = "deliver"
    /\ feemarketParams.enabled
    /\ tx.feeDenom = FeeAsset
    /\ twapRate[FeeAsset] = 2 * OneDec
    /\ RequiredOffered = 4
    /\ tx.fee = 5
    /\ Debited = 5

(***************************************************************************)
(* Properties of simulation.                                               *)
(***************************************************************************)
\* the call simulates a transaction with a signature that does not verify
SimulatedBadSignature ==
    /\ status # "idle"
    /\ Simulate
    /\ \E i \in TxSigners(tx) : ~tx.sigs[i]

BothRunsDone == rerun.done /\ status \in {"ok", "failed"}

MissingRequired == {k \in 1..Len(RequiredOptions) : ~options[RequiredOptions[k].field]}

\* C18: when a required option (account keeper, bank keeper, sign-mode
\* handler, wasm config, TX counter store service, circuit keeper) is missing,
\* NewAnteHandler returns no handler and the error of the first missing one
\* in that order, and it has constructed no decorator.
C18_FirstMissingReported ==
    (built.called /\ MissingRequired # {}) =>
        /\ built.kind = "err"
        /\ built.err = RequiredOptions[Min(MissingRequired)].err
        /\ built.constructed = <<>>

C18_Witness ==
    /\ built.called
    /\ options["AccountKeeper"]
    /\ ~options["BankKeeper"]
    /\ ~options["CircuitKeeper"]
    /\ options["WasmKeeper"]
    /\ built.kind = "err"
    /\ built.err = "bank keeper is required for ante builder"

(***************************************************************************)
(* The resolver reads and never writes.                                    *)
(***************************************************************************)
\* a step in which a resolver call is made or its result is taken
ResolverCallStep ==
    conv' # conv \/ back' # back \/ extraDenoms' # extraDenoms \/ helper' # helper

\* C19: no call of the resolver (ConvertToDenom, ExtraDenoms and their
\* helpers) changes the registry, a stored rate or a balance; the registry
\* and the rates change only in the administrative steps, which are not calls.
C19_ResolverReadOnly ==
    [][ResolverCallStep =>
          UNCHANGED <<hostZoneConfig, twapRate, balance, ibcBalance>>]_vars

C19_Witness ==
    /\ conv.called /\ conv.res.kind = "ok"
    /\ back.called /\ back.res.kind = "ok"
    /\ \E d \in IbcDenoms : hostZoneConfig[d] = "FROZEN"
    /\ \E d \in IbcDenoms : hostZoneConfig[d] = "UPDATED" /\ twapRate[d] # NoRate

(***************************************************************************)
(* ConvertToDenom and the list of ExtraDenoms.                             *)
(***************************************************************************)
\* the denoms ExtraDenoms returns from the registry as it is
ExtraDenomsNow == ExtraDenoms(hostZoneConfig, FALSE).denoms

InExtraDenoms(d) == \E k \in 1..Len(ExtraDenomsNow) : ExtraDenomsNow[k] = d

\* C20: ConvertToDenom returns an error whenever the input coin's denom is
\* not in the list ExtraDenoms returns or the conversion is not possible (no
\* rate stored for the asset), for every target denom, native or not.
C20_ErrorWhenUnlistedOrImpossible ==
    (conv.called /\ (~InExtraDenoms(conv.coin.denom)
                     \/ (CallAsset \in IbcDenoms /\ twapRate[CallAsset] = NoRate)))
        => conv.res.kind = "err"

(***************************************************************************)
(* ExtraDenoms against the registry.                                       *)
(***************************************************************************)
Registered == {d \in IbcDenoms : hostZoneConfig[d] # Absent}

\* C21: after any sequence of registry additions, updates and removals,
\* ExtraDenoms returns the IbcDenom of every host-zone config in the registry,
\* exactly one entry per config and nothing else; it returns an error, and
\* no list, exactly when reading the registry fails.
C21_OneEntryPerConfig ==
    extraDenoms.called =>
        /\ (extraDenoms.kind = "err") <=> extraDenoms.readErr
        /\ extraDenoms.kind = "err" => extraDenoms.denoms = <<>>
        /\ extraDenoms.kind = "ok" =>
              /\ Len(extraDenoms.denoms) = Cardinality(Registered)
              /\ \A d \in Registered :
                    Cardinality({k \in 1..Len(extraDenoms.denoms) :
                                    extraDenoms.denoms[k] = d}) = 1

C21_Witness ==
    /\ extraDenoms.called
    /\ ~extraDenoms.readErr
    /\ hostZoneConfig["ibc/ABC"] = "OUTDATED"
    /\ hostZoneConfig["ibc/XYZ"] = "UPDATED"
    /\ extraDenoms.denoms = <<"ibc/ABC", "ibc/XYZ">>

(***************************************************************************)
(* Conversion to a non-native target.                                      *)
(***************************************************************************)
\* a call of ConvertToDenom whose target is not the bond denom and whose
\* coin is not of the bond denom either
ForeignToForeignCall ==
    conv.called /\ ~conv.bondErr /\ conv.denom # BondDenom
    /\ conv.coin.denom # BondDenom

\* C22: conversion to a non-native target is defined only for native input;
\* with a target other than the bond denom, ConvertToDenom returns an error,
\* and no converted coin, when the coin's denom is not the bond denom.
C22_NonNativeTargetNeedsNativeInput ==
    ForeignToForeignCall => conv.res.kind = "err"

(***************************************************************************)
(* Faults of ConvertToDenom.                                               *)
(***************************************************************************)
\* C23: ConvertToDenom never faults; for every coin, target denom and
\* registry state (a zero amount, an amount below one unit, a converted
\* amount that rounds to zero, a missing or a zero rate) it returns a coin or
\* an error, and never aborts through an out-of-range index or a division
\* by zero.
C23_NeverFaults ==
    conv.called => conv.res.kind \in {"ok", "err"}

(***************************************************************************)
(* NewAnteHandler and the options it does not check.                       *)
(***************************************************************************)
\* C24: when the six checked dependencies are present, NewAnteHandler
\* returns a handler and no error, without faulting, whatever the unchecked
\* options (WasmKeeper, IBCKeeper, FeeMarketKeeper, FeegrantKeeper,
\* TxFeeChecker) are, nil included.
C24_BuildsWhenRequiredPresent ==
    (built.called /\ MissingRequired = {}) =>
        /\ built.kind = "ok"
        /\ built.err = None
        /\ built.constructed = anteDecorators

(***************************************************************************)
(* FinalizeBlock and the consensus-parameter migration check.              *)
(***************************************************************************)
EventsOf(n, ev) ==
    {i \in 1..Len(finalize.hist) : finalize.hist[i].call = n /\ finalize.hist[i].ev = ev}

Returned(n) == EventsOf(n, "return") \cup EventsOf(n, "return error") # {}

\* C26: across the FinalizeBlock calls on one instance the migration check
\* runs at most once, in the first call and before that call delegates to
\* BaseApp.FinalizeBlock; later calls delegate without running it, and every
\* call that does not panic delegates exactly once.
C26_CheckOnceThenDelegate ==
    /\ Cardinality(UNION {EventsOf(n, "check") : n \in 1..MaxBlocks}) <= 1
    /\ \A n \in 2..MaxBlocks : EventsOf(n, "check") = {}
    /\ \A i \in EventsOf(1, "check"), j \in EventsOf(1, "delegate") : i < j
    /\ \A n \in 1..MaxBlocks :
          /\ Returned(n) => Cardinality(EventsOf(n, "delegate")) = 1
          /\ EventsOf(n, "panic") # {} => EventsOf(n, "delegate") = {}
          /\ Cardinality(EventsOf(n, "delegate")) <= 1
    /\ (finalize.call >= 1 /\ finalize.pc \in {"idle", "delegate"}) =>
          EventsOf(1, "check") # {}

C26_Witness ==
    /\ finalize.pc = "idle"
    /\ finalize.call = 3
    /\ EventsOf(1, "migrate") # {}
    /\ Returned(1) /\ Returned(2) /\ Returned(3)
    /\ EventsOf(2, "check") = {}

(***************************************************************************)
(* The retry wrapper.                                                      *)
(***************************************************************************)
Positive(n) == IF n > 0 THEN n ELSE 0

\* what holds at every point of a call of the wrapper
RetryBounded ==
    /\ Len(retry.calls) <= Positive(retry.maxRetries)
    /\ \A i \in 1..Len(retry.calls) :
          retry.calls[i].err = None => i = Len(retry.calls)
    /\ (retry.pc = "returned" /\ retry.res.err = None) =>
          /\ retry.calls # <<>>
          /\ retry.res = retry.calls[Len(retry.calls)]
    /\ (retry.pc = "returned" /\ retry.res.err # None) =>
          /\ Len(retry.calls) = Positive(retry.maxRetries)
          /\ \A i \in 1..Len(retry.calls) : retry.calls[i].err # None
          /\ retry.res.balances = None /\ retry.res.rewards = None
          /\ retry.res.length = 0
    /\ retry.pc \in {"call", "loop"} =>
          \A i \in 1..Len(retry.calls) : retry.calls[i].err # None

\* C27: the function RetryableBalanceFunc(fn) returns always terminates,
\* after calling fn at most config.MaxRetries times, one call at a time; it
\* returns the balances, rewards and length of the first call whose error is
\* nil and makes no call after it; when every call fails, or MaxRetries is
\* not positive, it returns nil, nil, 0 and an error.
C27_RetriesThenReturns ==
    /\ []RetryBounded
    /\ <>(retry.pc \in {"returned", "panicked"})

C27_Witness ==
    /\ retry.pc = "returned"
    /\ retry.maxRetries = 3
    /\ Len(retry.calls) = 2
    /\ retry.calls[1].err = "fetch failed" /\ retry.calls[1].balances = "b1"
    /\ retry.res.err = None /\ retry.res.balances = "b2"

C29_AllowedNotBlocked ==
    blocked.called =>
        \A n \in DOMAIN allowedReceivingModAcc :
            allowedReceivingModAcc[n] => NewModuleAddress(n) \notin DOMAIN blocked.res

(***************************************************************************)
(* GetMaccPerms returns a copy.                                            *)
(***************************************************************************)
\* the package-level table as a reader sees it now, and as it was declared
TableNow == View(mapHeap, sliceHeap, 0)
TableDeclared == [k \in Keys |-> IF k \in ModuleNames THEN maccPerms[k] ELSE Missing]

\* C30: GetMaccPerms returns a copy of the permission table; after any
\* sequence of insertions, deletions and reassignments of keys in the
\* returned maps, the package-level maccPerms, the later GetMaccPerms
\* results and the BlockedAddresses results are what they were before.
C30_KeyChangesStayInCopy ==
    ~elementWritten =>
        /\ TableNow = TableDeclared
        /\ handed # <<>> => lastDup = TableDeclared
        /\ blocked.called =>
              blocked.res = [a \in {NewModuleAddress(n) :
                                 n \in ModuleNames \ {GovModuleName, AllianceModuleName}}
                                |-> TRUE]

C30_Witness ==
    /\ ~elementWritten
    /\ Len(handed) = 2
    /\ mapHeap[1][GovModuleName] = Missing
    /\ mapHeap[1][FeeabsModuleName] = Fresh
    /\ mapHeap[1][Intruder] = Fresh
    /\ mapHeap[2][GovModuleName] = GovModuleName
    /\ blocked.called

====
